---- MODULE Spec2Model ----
(***************************************************************************)
(* A model of aws-eagle-eye: the ENI resource classifier                   *)
(* (src/app/gather.py, NetworkInterfaceDiscovery.identify_resource and     *)
(* its helpers) and the VPC flow-log aggregator (src/terraform/lambda.py,  *)
(* process_vpc_flow_log_file).                                             *)
(*                                                                         *)
(* Text that the code inspects character by character (descriptions,       *)
(* requester ids, tag keys and values, resource ids, log lines and their   *)
(* fields) is a sequence of one-character strings; text that is only       *)
(* compared for equality (resource types, interface types, VPC and subnet  *)
(* ids) is a TLA+ string.                                                  *)
(***************************************************************************)
EXTENDS Integers, Sequences, FiniteSets, TLC

VARIABLES
    eni,             \* the interface record given to identify_resource
    cloud,           \* what the backing cloud calls answer during this run
    result,          \* the descriptor identify_resource returned
    lookups,         \* the get_resource_by_id calls made, in order
    call,            \* arguments of a direct get_resource_by_id call
    ret,             \* what that direct call returned
    cpc,             \* classifier position: "start", "identified", "looked_up"
    files,           \* the log files of the event, each a sequence of lines
    fileIdx,         \* index of the file being processed
    linePos,         \* number of lines of that file already consumed
    summaries,       \* the summaries dict of the file being processed
    processed_lines, \* counter of aggregated lines of the current file
    skipped_lines,   \* counter of skipped lines of the current file
    returned,        \* per finished file: the list process_vpc_flow_log_file returned
    printed,         \* per finished file: the line counts it printed
    clock,           \* the last reading of the wall clock, in microseconds
    apc,             \* aggregator position: "idle", "lines", "done", "raised"
    objects,         \* per record of the event: what reading its S3 object gives
    pubIdx,          \* number of summaries of the current file already handed to the publisher
    attempts,        \* the publish_to_appsync calls of this invocation, in order
    deletes,         \* the delete_s3_file calls of this invocation, in order
    total_summaries, \* handler counter
    published_count, \* handler counter
    failed_count,    \* handler counter
    handler_result,  \* what the invocation gave its caller: nothing yet, a response, an exception
    APPSYNC_API_KEY, \* the module global: None, the key, or "" after a failed fetch
    ssm_calls,       \* number of get_parameter calls made by this process
    invocation,      \* number of handler invocations started by this process
    hpc,             \* handler position: "idle", "record", "publishing", "returned", "raised"
    store,           \* the DynamoDB table: per interface id its item, or no item
    stored_before,   \* the table as it was before the event handled last
    lifecycle_event, \* the event handled last and what the backing calls answered
    response,        \* the response handle_eventbridge_event returned for it
    latest,          \* per interface id: the name of the most recent event naming it
    disturbed,       \* whether some event so far met a failing call or a missing interface
    handled,         \* number of events handled
    subnets,         \* the subnets get_all_subnets returned
    igws,            \* the gateways get_internet_gateways returned
    virtual_appliances, \* what create_virtual_appliances returned
    spc,             \* synthesis position: "idle", "start", "created"
    network_interfaces, \* the interfaces get_all_network_interfaces returned
    stats,           \* the statistics of the discovery pass
    pass_log,        \* per interface handled in the pass: its kind and what became of it
    ppc,             \* pass position: "idle", "real", "virtual", "done"
    vpc_list,        \* the VPC list table: per VPC id its record, or no item
    vpc_map,         \* the interface table: the set of interface records
    map_before,      \* the interface table before the refresh request handled last
    requests,        \* the add_vpc requests under way: position, locals and answer
    refresh_response \* the answer of the refresh request handled last

cvars == <<eni, cloud, result, lookups, call, ret, cpc>>
avars == <<files, fileIdx, linePos, summaries, processed_lines, skipped_lines, returned,
           printed, clock, apc>>
hvars == <<objects, pubIdx, attempts, deletes, total_summaries, published_count, failed_count,
           handler_result, APPSYNC_API_KEY, ssm_calls, invocation, hpc>>
evars == <<store, stored_before, lifecycle_event, response, latest, disturbed, handled>>
svars == <<subnets, igws, virtual_appliances, spc>>
pvars == <<network_interfaces, stats, pass_log, ppc>>
wvars == <<vpc_list, vpc_map, map_before, requests, refresh_response>>
xvars == <<svars, pvars, wvars>>
vars == <<eni, cloud, result, lookups, call, ret, cpc,
          files, fileIdx, linePos, summaries, processed_lines, skipped_lines, returned,
          printed, clock, apc,
          objects, pubIdx, attempts, deletes, total_summaries, published_count, failed_count,
          handler_result, APPSYNC_API_KEY, ssm_calls, invocation, hpc,
          store, stored_before, lifecycle_event, response, latest, disturbed, handled,
          subnets, igws, virtual_appliances, spc,
          network_interfaces, stats, pass_log, ppc,
          vpc_list, vpc_map, map_before, requests, refresh_response>>

(***************************************************************************)
(* Python text operations.                                                 *)
(***************************************************************************)
UpperChars == <<"A","B","C","D","E","F","G","H","I","J","K","L","M",
                "N","O","P","Q","R","S","T","U","V","W","X","Y","Z">>
LowerChars == <<"a","b","c","d","e","f","g","h","i","j","k","l","m",
                "n","o","p","q","r","s","t","u","v","w","x","y","z">>
DigitChars == <<"0","1","2","3","4","5","6","7","8","9">>

Range(f) == {f[k] : k \in DOMAIN f}

LowerOf == [c \in Range(UpperChars) |-> LowerChars[CHOOSE k \in 1..26 : UpperChars[k] = c]]
UpperOf == [c \in Range(LowerChars) |-> UpperChars[CHOOSE k \in 1..26 : LowerChars[k] = c]]

\* str.lower() of one character
LowerChar(c) == IF c \in DOMAIN LowerOf THEN LowerOf[c] ELSE c

UpperChar(c) == IF c \in DOMAIN UpperOf THEN UpperOf[c] ELSE c

\* str.lower()
Lower(s) == SubSeq([k \in 1..Len(s) |-> LowerChar(s[k])], 1, Len(s))

\* str.startswith(p)
StartsWith(s, p) == Len(p) <= Len(s) /\ \A j \in 1..Len(p) : s[j] = p[j]

\* p in s
Contains(s, p) == \E k \in 1..(Len(s) - Len(p) + 1) : \A j \in 1..Len(p) : s[k + j - 1] = p[j]

\* s[:n]
Prefix(s, n) == IF Len(s) <= n THEN s ELSE SubSeq(s, 1, n)

(***************************************************************************)
(* Python's re.search for the constructs the description rules use.  A     *)
(* pattern is a sequence of elements (a literal, a choice of literals, one *)
(* character of a class, a repetition of a class, the end of the text)     *)
(* with its groups given as spans of elements.  ElementEnds lists the      *)
(* positions at which an element matched from position i can end, in the   *)
(* order the backtracking matcher tries them: a greedy repetition longest  *)
(* first, a lazy one shortest first, a choice left to right.               *)
(* Where a value is used several times it is named by a bound variable,    *)
(* x \in {e}, which TLC evaluates once.                                    *)
(***************************************************************************)
\* a literal, or a choice "(a|b|c)" of literals, under re.IGNORECASE
LitI(p) == [t |-> "alt", ps |-> <<Lower(p)>>]
AltI(ps) == [t |-> "alt", ps |-> [k \in 1..Len(ps) |-> Lower(ps[k])]]
\* one character in cs ("[...]") or not in cs ("[^...]")
Chr(cs) == [t |-> "run", cs |-> cs, neg |-> FALSE, min |-> 1, many |-> FALSE, greedy |-> TRUE]
\* "[...]+", "[...]*", "[^...]+" and the lazy ".*?"
Plus(cs) == [t |-> "run", cs |-> cs, neg |-> FALSE, min |-> 1, many |-> TRUE, greedy |-> TRUE]
Star(cs) == [t |-> "run", cs |-> cs, neg |-> FALSE, min |-> 0, many |-> TRUE, greedy |-> TRUE]
NotPlus(cs) == [t |-> "run", cs |-> cs, neg |-> TRUE, min |-> 1, many |-> TRUE, greedy |-> TRUE]
\* ".*?": "." matches everything but a newline
LazyDotStar == [t |-> "run", cs |-> {"\n"}, neg |-> TRUE, min |-> 0, many |-> TRUE, greedy |-> FALSE]
\* "$"
Eos == [t |-> "eos"]

Letters == Range(UpperChars) \cup Range(LowerChars)
Digits == Range(DigitChars)
HexI == Digits \cup {"a","b","c","d","e","f","A","B","C","D","E","F"}
AlnumDash == Letters \cup Digits \cup {"-"}
\* \s
Whitespace == {" ", "\t", "\n", "\r", "\f"}

\* a pattern: its elements and, for each group, the first and last element in it
Pattern(els, groups) == [els |-> els, groups |-> groups]

InClass(e, c) == IF e.neg THEN c \notin e.cs ELSE c \in e.cs

\* the position after the longest stretch of characters of e's class from i
RunEnd(e, s, i) ==
    LET stops == {j \in i..(Len(s) + 1) : j = Len(s) + 1 \/ ~InClass(e, s[j])}
    IN  CHOOSE j \in stops : \A j2 \in stops : j <= j2

\* whether the lower-case literal p is at position i of s, whatever the case in s
LitAt(s, i, p) == i + Len(p) - 1 <= Len(s) /\ \A j \in 1..Len(p) : LowerChar(s[i + j - 1]) = p[j]

ElementEnds(e, s, i) ==
    CASE e.t = "alt" ->
            LET hit == SelectSeq(e.ps, LAMBDA p : LitAt(s, i, p))
            IN  [m \in 1..Len(hit) |-> i + Len(hit[m])]
      [] e.t = "run" ->
            LET last == IF e.many THEN RunEnd(e, s, i)
                        ELSE IF i <= Len(s) /\ InClass(e, s[i]) THEN i + 1 ELSE i
                n == last - (i + e.min) + 1
            IN  IF n <= 0 THEN <<>>
                ELSE IF e.greedy THEN [m \in 1..n |-> last - m + 1]
                ELSE [m \in 1..n |-> i + e.min + m - 1]
      [] e.t = "eos" -> IF i = Len(s) + 1 \/ (i = Len(s) /\ s[i] = "\n") THEN <<i>> ELSE <<>>

\* whether elements k.. of the pattern match from position i
RECURSIVE CanMatch(_, _, _, _)
CanMatch(els, k, s, i) ==
    k > Len(els) \/
    LET ends == ElementEnds(els[k], s, i)
    IN  \E m \in 1..Len(ends) : CanMatch(els, k + 1, s, ends[m])

\* the first of the positions ends, in their order, from which elements k..
\* of the pattern match
FirstEnd(els, k, s, ends) ==
    ends[CHOOSE m \in 1..Len(ends) :
            /\ CanMatch(els, k, s, ends[m])
            /\ \A m2 \in 1..(m - 1) : ~CanMatch(els, k, s, ends[m2])]

\* the end positions of elements k.. in the first way the matcher finds, given
\* that there is one
RECURSIVE MatchEnds(_, _, _, _)
MatchEnds(els, k, s, i) ==
    IF k > Len(els) THEN <<>>
    ELSE CHOOSE found \in {<<e>> \o MatchEnds(els, k + 1, s, e) :
                             e \in {FirstEnd(els, k + 1, s, ends) : ends \in {ElementEnds(els[k], s, i)}}} :
            TRUE

NoGroups == <<>>
NoMatch == [found |-> FALSE, groups |-> NoGroups]

\* the groups of the match of r in s that starts at i and has the elements
\* end at ends
GroupsOf(r, s, i, ends) ==
    [n \in 1..Len(r.groups) |->
        SubSeq(s, IF r.groups[n][1] = 1 THEN i ELSE ends[r.groups[n][1] - 1],
                  ends[r.groups[n][2]] - 1)]

\* the positions from which r matches in s
MatchStarts(r, s) == {i \in 1..(Len(s) + 1) : CanMatch(r.els, 1, s, i)}

\* the match of r in s that starts at i
MatchFrom(r, s, i) ==
    CHOOSE m \in {[found |-> TRUE, groups |-> GroupsOf(r, s, i, ends)] :
                    ends \in {MatchEnds(r.els, 1, s, i)}} : TRUE

\* re.search(r, s): the groups of the first match at the leftmost position, or
\* NoMatch
ReSearch(r, s) ==
    CHOOSE m \in {IF starts = {} THEN NoMatch
                  ELSE MatchFrom(r, s, CHOOSE i \in starts : \A j \in starts : i <= j) :
                  starts \in {MatchStarts(r, s)}} : TRUE
(***************************************************************************)
(* parse_resource_from_description: the ordered description rules.         *)
(* An optional value (None or a text) is <<>> or <<text>>.                 *)
(***************************************************************************)
None == <<>>
Some(x) == <<x>>

\* m.group(n) if m else None
GroupOrNone(m, n) == IF m.found THEN Some(m.groups[n]) ELSE None

DescIdLen == 50

Re_elb == Pattern(<<LitI(<<"E","L","B">>), Plus(Whitespace), AltI(<<<<"a","p","p">>, <<"n","e","t">>, <<"g","w","y">>>>), Chr({"/"}),
                      NotPlus({"/"}), Chr({"/"}), Plus(HexI)>>,
                    <<<<3, 3>>, <<5, 5>>, <<7, 7>>>>)
Re_classic_elb == Pattern(<<LitI(<<"E","L","B">>), Plus(Whitespace), Plus(AlnumDash), Eos>>, <<<<3, 3>>>>)
Re_lambda == Pattern(<<LitI(<<"A","W","S"," ","L","a","m","b","d","a"," ","V","P","C"," ","E","N","I">>), Plus(Whitespace \cup {":", "-"}),
                         Plus(AlnumDash \cup {"_"})>>, <<<<3, 3>>>>)
Re_nat == Pattern(<<LitI(<<"N","A","T"," ","G","a","t","e","w","a","y">>), Plus(Whitespace), LitI(<<"n","a","t","-">>), Plus(HexI)>>, <<<<3, 4>>>>)
Re_vpce == Pattern(<<LitI(<<"V","P","C"," ","E","n","d","p","o","i","n","t">>), LazyDotStar, LitI(<<"v","p","c","e","-">>), Plus(HexI)>>, <<<<3, 4>>>>)
Re_resolver == Pattern(<<LitI(<<"r","s","l","v","r","-">>), AltI(<<<<"i","n">>, <<"o","u","t">>>>), Chr({"-"}), Plus(HexI)>>,
                         <<<<1, 4>>, <<2, 2>>>>)
Re_ecs_arn == Pattern(<<LitI(<<"a","r","n",":","a","w","s",":","e","c","s",":">>), NotPlus({":"}), Chr({":"}), NotPlus({":"}), Chr({":"}),
                          AltI(<<<<"a","t","t","a","c","h","m","e","n","t">>, <<"t","a","s","k">>>>), Chr({"/"}), Plus(AlnumDash)>>,
                        <<<<6, 6>>, <<8, 8>>>>)
Re_ecs == Pattern(<<LitI(<<"e","c","s">>), Star(Whitespace \cup {":", "-"}), AltI(<<<<"t","a","s","k">>, <<"s","e","r","v","i","c","e">>>>),
                      Star(Whitespace \cup {":", "-"}), Plus(AlnumDash)>>,
                    <<<<3, 3>>, <<5, 5>>>>)
Re_token == Pattern(<<Plus(AlnumDash)>>, <<<<1, 1>>>>)
Re_fs == Pattern(<<LitI(<<"f","s","-">>), Plus(HexI)>>, <<<<1, 2>>>>)
Re_fsx == Pattern(<<LitI(<<"f","s","x">>), LazyDotStar, LitI(<<"f","s","-">>), Plus(HexI)>>, <<<<3, 4>>>>)
Re_firehose == Pattern(<<LitI(<<"k","i","n","e","s","i","s","-","f","i","r","e","h","o","s","e","-">>), Plus(AlnumDash \cup {"_"})>>, <<<<2, 2>>>>)
Re_mq == Pattern(<<LitI(<<"b","r","o","k","e","r">>), Plus(Whitespace), LitI(<<"b","-">>), Plus(HexI \cup {"-"})>>, <<<<3, 4>>>>)
Re_emr == Pattern(<<LitI(<<"j","-">>), Plus(Letters \cup Digits)>>, <<<<1, 2>>>>)
Re_ws == Pattern(<<LitI(<<"w","s","-">>), Plus(Letters \cup Digits)>>, <<<<1, 2>>>>)
Re_dir == Pattern(<<LitI(<<"d","-">>), Plus(Letters \cup Digits)>>, <<<<1, 2>>>>)
Re_transfer == Pattern(<<LitI(<<"s","-">>), Plus(HexI)>>, <<<<1, 2>>>>)
Re_fw == Pattern(<<LitI(<<"f","i","r","e","w","a","l","l","-">>), Plus(HexI)>>, <<<<1, 2>>>>)
Re_sgw == Pattern(<<LitI(<<"s","g","w","-">>), Plus(HexI)>>, <<<<1, 2>>>>)
Re_eks == Pattern(<<LitI(<<"e","k","s","-">>), Plus(AlnumDash)>>, <<<<2, 2>>>>)
Re_tgw == Pattern(<<LitI(<<"t","g","w","-">>), Plus(HexI)>>, <<<<1, 2>>>>)

NumRules == 48

Fires(type, id) == [fires |-> TRUE, type |-> type, id |-> id]
Skips == [fires |-> FALSE, type |-> "", id |-> None]
When(cond, type, id) == IF cond THEN Fires(type, id) ELSE Skips

\* a rule that searches for no pattern
Re_none == Pattern(<<>>, <<>>)

\* the pattern rule k searches the description for
RulePattern(k) ==
    CASE k \in {1} -> Re_elb
      [] k \in {2} -> Re_classic_elb
      [] k \in {3} -> Re_lambda
      [] k \in {4} -> Re_nat
      [] k \in {5} -> Re_vpce
      [] k \in {6} -> Re_resolver
      [] k \in {7} -> Re_ecs_arn
      [] k \in {8} -> Re_ecs
      [] k \in {11, 12} -> Re_token
      [] k \in {13} -> Re_fs
      [] k \in {14} -> Re_fsx
      [] k \in {16} -> Re_firehose
      [] k \in {17} -> Re_mq
      [] k \in {18} -> Re_emr
      [] k \in {21} -> Re_ws
      [] k \in {23} -> Re_dir
      [] k \in {24} -> Re_transfer
      [] k \in {27} -> Re_fw
      [] k \in {38} -> Re_sgw
      [] k \in {42} -> Re_eks
      [] k \in {43} -> Re_tgw
      [] OTHER -> Re_none

\* Rule k applied to description d, dl being d.lower() and m what the rule's
\* re.search gives: whether the rule's condition holds and the (type, id) it
\* returns.
RuleOutcome(k, d, dl, m) ==
       CASE k = 1 ->
            When(m.found, "elb", Some(m.groups[1] \o <<"/">> \o m.groups[2] \o <<"/">> \o m.groups[3]))
         [] k = 2 -> When(m.found, "elb", Some(m.groups[1]))
         [] k = 3 -> When(m.found, "lambda", Some(m.groups[1]))
         [] k = 4 -> When(m.found, "nat-gateway", Some(m.groups[1]))
         [] k = 5 -> When(m.found, "vpc-endpoint", Some(m.groups[1]))
         [] k = 6 ->
            IF Contains(dl, <<"r","o","u","t","e"," ","5","3"," ","r","e","s","o","l","v","e","r">>) \/ Contains(dl, <<"r","o","u","t","e","5","3"," ","r","e","s","o","l","v","e","r">>)
            THEN IF m.found
                     THEN IF m.groups[2] = <<"i","n">>
                          THEN Fires("route53-resolver-inbound", Some(m.groups[1]))
                          ELSE Fires("route53-resolver-outbound", Some(m.groups[1]))
                     ELSE Fires("route53-resolver", None)
            ELSE Skips
         [] k = 7 -> When(m.found, "ecs", Some(m.groups[2]))
         [] k = 8 -> When(m.found, "ecs", Some(m.groups[2]))
         [] k = 9 -> When(Contains(dl, <<"a","w","s","v","p","c">>) /\ (Contains(dl, <<"t","a","s","k">>) \/ Contains(dl, <<"e","n","i">>)), "ecs", Some(Prefix(d, DescIdLen)))
         [] k = 10 -> When(Contains(dl, <<"r","d","s","n","e","t","w","o","r","k","i","n","t","e","r","f","a","c","e">>) \/ Contains(dl, <<"r","d","s"," ","n","e","t","w","o","r","k"," ","i","n","t","e","r","f","a","c","e">>), "rds", None)
         [] k = 11 -> When(Contains(dl, <<"e","l","a","s","t","i","c","a","c","h","e">>), "elasticache", GroupOrNone(m, 1))
         [] k = 12 -> When(Contains(dl, <<"r","e","d","s","h","i","f","t">>), "redshift", GroupOrNone(m, 1))
         [] k = 13 -> When(m.found \/ Contains(dl, <<"e","f","s">>), "efs", GroupOrNone(m, 1))
         [] k = 14 -> When(m.found \/ Contains(dl, <<"f","s","x">>), "fsx", GroupOrNone(m, 1))
         [] k = 15 -> When(Contains(dl, <<"m","s","k">>) \/ Contains(dl, <<"k","a","f","k","a">>), "msk", None)
         [] k = 16 -> When(Contains(dl, <<"k","i","n","e","s","i","s"," ","f","i","r","e","h","o","s","e">>) \/ Contains(dl, <<"k","i","n","e","s","i","s","-","f","i","r","e","h","o","s","e">>), "kinesis-firehose",
                           GroupOrNone(m, 1))
         [] k = 17 -> When(Contains(dl, <<"a","m","a","z","o","n"," ","m","q">>), "mq", GroupOrNone(m, 1))
         [] k = 18 -> When(Contains(dl, <<"e","m","r">>) \/ Contains(dl, <<"e","l","a","s","t","i","c"," ","m","a","p","r","e","d","u","c","e">>), "emr", GroupOrNone(m, 1))
         [] k = 19 -> When(Contains(dl, <<"g","l","u","e">>), "glue", None)
         [] k = 20 -> When(Contains(dl, <<"s","a","g","e","m","a","k","e","r">>), "sagemaker", None)
         [] k = 21 -> When(Contains(dl, <<"w","o","r","k","s","p","a","c","e","s">>), "workspaces", GroupOrNone(m, 1))
         [] k = 22 -> When(Contains(dl, <<"a","p","p","s","t","r","e","a","m">>), "appstream", None)
         [] k = 23 -> When(Contains(dl, <<"d","i","r","e","c","t","o","r","y">>) \/ Contains(d, <<"d","s","-">>), "directory-service",
                           GroupOrNone(m, 1))
         [] k = 24 -> When(Contains(dl, <<"t","r","a","n","s","f","e","r">>), "transfer", GroupOrNone(m, 1))
         [] k = 25 -> When(Contains(dl, <<"m","w","a","a">>) \/ Contains(dl, <<"a","i","r","f","l","o","w">>), "mwaa", None)
         [] k = 26 -> When(Contains(dl, <<"g","l","o","b","a","l"," ","a","c","c","e","l","e","r","a","t","o","r">>) \/ Contains(dl, <<"a","c","c","e","l","e","r","a","t","o","r">>), "global-accelerator", None)
         [] k = 27 -> When(Contains(dl, <<"n","e","t","w","o","r","k"," ","f","i","r","e","w","a","l","l">>) \/ Contains(dl, <<"f","i","r","e","w","a","l","l">>), "network-firewall",
                           GroupOrNone(m, 1))
         [] k = 28 -> When(Contains(dl, <<"a","p","i"," ","g","a","t","e","w","a","y">>) \/ Contains(dl, <<"a","p","i","g","a","t","e","w","a","y">>), "api-gateway", None)
         [] k = 29 -> When(Contains(dl, <<"c","o","d","e","b","u","i","l","d">>), "codebuild", None)
         [] k = 30 -> When(Contains(dl, <<"c","l","o","u","d","9">>), "cloud9", None)
         [] k = 31 -> When(Contains(dl, <<"n","e","p","t","u","n","e">>), "neptune", None)
         [] k = 32 -> When(Contains(dl, <<"d","o","c","u","m","e","n","t","d","b">>) \/ Contains(dl, <<"d","o","c","d","b">>), "documentdb", None)
         [] k = 33 -> When(Contains(dl, <<"m","e","m","o","r","y","d","b">>), "memorydb", None)
         [] k = 34 -> When(Contains(dl, <<"o","p","e","n","s","e","a","r","c","h">>), "opensearch", None)
         [] k = 35 -> When(Contains(dl, <<"e","l","a","s","t","i","c","s","e","a","r","c","h">>), "elasticsearch", None)
         [] k = 36 -> When(Contains(dl, <<"b","a","c","k","u","p">>), "backup", None)
         [] k = 37 -> When(Contains(dl, <<"d","a","t","a","s","y","n","c">>), "datasync", None)
         [] k = 38 -> When(Contains(dl, <<"s","t","o","r","a","g","e"," ","g","a","t","e","w","a","y">>) \/ Contains(dl, <<"s","t","o","r","a","g","e","g","a","t","e","w","a","y">>), "storage-gateway",
                           GroupOrNone(m, 1))
         [] k = 39 -> When(Contains(dl, <<"c","o","n","n","e","c","t">>) /\ Contains(dl, <<"a","m","a","z","o","n">>), "connect", None)
         [] k = 40 -> When(Contains(dl, <<"a","p","p","r","u","n","n","e","r">>) \/ Contains(dl, <<"a","p","p"," ","r","u","n","n","e","r">>), "apprunner", None)
         [] k = 41 -> When(Contains(dl, <<"b","a","t","c","h">>) /\ Contains(dl, <<"c","o","m","p","u","t","e"," ","e","n","v","i","r","o","n","m","e","n","t">>), "batch", None)
         [] k = 42 -> When(Contains(dl, <<"e","k","s">>), "eks", GroupOrNone(m, 1))
         [] k = 43 -> When(Contains(dl, <<"t","r","a","n","s","i","t"," ","g","a","t","e","w","a","y">>) \/ Contains(dl, <<"t","g","w">>), "transit-gateway",
                           GroupOrNone(m, 1))
         [] k = 44 -> When(Contains(dl, <<"q","u","i","c","k","s","i","g","h","t">>), "quicksight", None)
         [] k = 45 -> When(Contains(dl, <<"a","t","h","e","n","a">>), "athena", None)
         [] k = 46 -> When(Contains(dl, <<"l","a","k","e"," ","f","o","r","m","a","t","i","o","n">>) \/ Contains(dl, <<"l","a","k","e","f","o","r","m","a","t","i","o","n">>), "lake-formation", None)
         [] k = 47 -> When(Contains(dl, <<"g","r","e","e","n","g","r","a","s","s">>), "iot-greengrass", None)
         [] k = 48 -> When(Contains(dl, <<"v","e","r","i","f","i","e","d"," ","a","c","c","e","s","s">>), "verified-access", None)

\* Rule k of parse_resource_from_description applied to description d
DescriptionRule(k, d) ==
    CHOOSE outcome \in {RuleOutcome(k, d, dl, m) :
                           dl \in {Lower(d)}, m \in {ReSearch(RulePattern(k), d)}} : TRUE

\* the first rule from k on whose condition holds, or 0
RECURSIVE FirstRuleFrom(_, _)
FirstRuleFrom(k, d) ==
    IF k > NumRules THEN 0
    ELSE IF DescriptionRule(k, d).fires THEN k
    ELSE FirstRuleFrom(k + 1, d)

FirstRule(d) == FirstRuleFrom(1, d)

\* parse_resource_from_description(description): (resource_type, resource_id)
\* or (None, None)
ParseDescription(d) ==
    IF d = <<>> \/ FirstRule(d) = 0 THEN [type |-> None, id |-> None]
    ELSE CHOOSE parsed \in {[type |-> Some(rule.type), id |-> rule.id] :
                               rule \in {DescriptionRule(FirstRule(d), d)}} : TRUE

(***************************************************************************)
(* Python dicts are functions; dict.get and truthiness.                    *)
(***************************************************************************)
EmptyDict == <<>>
DictGet(d, k, default) == IF k \in DOMAIN d THEN d[k] ELSE default
\* d.get(k): None when k is missing
DictGetOpt(d, k) == IF k \in DOMAIN d THEN Some(d[k]) ELSE None
\* truth value of an optional text: None and '' are false
Truthy(x) == x # None /\ x[1] # <<>>

\* {tag['Key']: tag['Value'] for tag in tag_list}: the last entry of a key wins
TagDict(ts) ==
    [k \in {ts[j].Key : j \in 1..Len(ts)} |->
        ts[CHOOSE j \in 1..Len(ts) :
              ts[j].Key = k /\ \A j2 \in (j + 1)..Len(ts) : ts[j2].Key # k].Value]

NA == <<"N","/","A">>
K_Name == <<"N","a","m","e">>

(***************************************************************************)
(* The backing cloud calls.  cloud.tagging is what the tagging API answers *)
(* to get_resources, cloud.describe what the EC2 describe_* calls answer,  *)
(* cloud.rds what the RDS calls answer; "error" is a ClientError.          *)
(***************************************************************************)
NamedTags == (K_Name :> <<"w","e","b","-","1">>) @@ (<<"e","n","v">> :> <<"p","r","o","d">>)
PlainTags == (<<"e","n","v">> :> <<"p","r","o","d">>)
ServiceName == <<"c","o","m",".","a","m","a","z","o","n","a","w","s",".","e","u","-","c","e","n","t","r","a","l","-","1",".","s","3">>
DbTags == (<<"t","e","a","m">> :> <<"d","a","t","a">>)

TaggingAnswers == {"named", "tagged", "empty", "error"}
DescribeAnswers == {"found", "found_nameless", "empty", "error"}
RdsAnswers == {"match", "match_tags_error", "other_vpc", "other_subnet", "other_az", "none", "error"}

\* get_tags_by_arn: the resource's tags, {} when the API lists no resource or fails
get_tags_by_arn(c) ==
    CASE c.tagging = "named" -> NamedTags
      [] c.tagging = "tagged" -> PlainTags
      [] c.tagging = "empty" -> EmptyDict
      [] c.tagging = "error" -> EmptyDict

\* the resource types construct_resource_arn has an ARN pattern for
ArnTypes == {"lambda", "ec2", "rds", "nat-gateway", "vpc-endpoint", "elb", "ecs", "eks",
             "elasticache", "redshift", "efs", "fsx", "msk", "mq", "sagemaker", "emr", "glue",
             "opensearch", "elasticsearch", "neptune", "documentdb", "memorydb"}

\* construct_resource_arn: whether an ARN comes back (the ARN text itself is
\* only handed to the tagging API)
construct_resource_arn(resource_type) == resource_type \in ArnTypes

\* the DB instances describe_db_instances pages through
DBInstances(c) ==
    LET db(vpc, subnet_ids, az) ==
            [DBInstanceIdentifier |-> <<"o","r","d","e","r","s","-","d","b">>, VpcId |-> vpc, Subnets |-> subnet_ids,
             AvailabilityZone |-> az]
    IN  CASE c.rds \in {"match", "match_tags_error"} ->
                <<db("vpc-2", {"subnet-1"}, "az-a"), db("vpc-1", {"subnet-0", "subnet-1"}, "az-a")>>
          [] c.rds = "other_vpc" -> <<db("vpc-2", {"subnet-1"}, "az-a")>>
          [] c.rds = "other_subnet" -> <<db("vpc-1", {"subnet-0"}, "az-a")>>
          [] c.rds = "other_az" -> <<db("vpc-1", {"subnet-1"}, "az-b")>>
          [] c.rds \in {"none", "error"} -> <<>>

\* get_rds_instance_by_eni: (db_instance_id, tags) of the first DB instance in
\* the interface's VPC, subnet and zone, or (None, {})
get_rds_instance_by_eni(eni_data, c) ==
    LET dbs == DBInstances(c)
        hits == {k \in 1..Len(dbs) :
                    /\ dbs[k].VpcId = eni_data.vpc_id
                    /\ eni_data.subnet_id \in dbs[k].Subnets
                    /\ dbs[k].AvailabilityZone = eni_data.availability_zone}
    IN  IF c.rds = "error" \/ hits = {} THEN [name |-> None, tags |-> EmptyDict]
        ELSE LET k == CHOOSE k \in hits : \A k2 \in hits : k <= k2
             IN  [name |-> Some(dbs[k].DBInstanceIdentifier),
                  tags |-> IF c.rds = "match_tags_error" THEN EmptyDict ELSE DbTags]

\* get_resource_by_id(resource_type, resource_id, eni_data): (resource_name, tags).
\* resource_id and eni_data are optional; the name returned is optional because
\* the location search returns None as the name when it finds nothing.
get_resource_by_id(resource_type, resource_id, eni_data, c) ==
    IF resource_type = "rds" /\ ~Truthy(resource_id) /\ eni_data # None
    THEN get_rds_instance_by_eni(eni_data[1], c)
    ELSE IF ~Truthy(resource_id) THEN [name |-> Some(NA), tags |-> EmptyDict]
    ELSE IF construct_resource_arn(resource_type)
    THEN LET tags == get_tags_by_arn(c)
             by_tag == DictGet(tags, K_Name, resource_id[1])
             nameless == ~Truthy(DictGetOpt(tags, K_Name))
         IN  IF resource_type = "vpc-endpoint" /\ nameless
             THEN CASE c.describe = "found" -> [name |-> Some(ServiceName), tags |-> tags]
                    [] c.describe = "found_nameless" -> [name |-> Some(resource_id[1]), tags |-> tags]
                    [] c.describe \in {"empty", "error"} -> [name |-> Some(by_tag), tags |-> tags]
             ELSE [name |-> Some(by_tag), tags |-> tags]
    ELSE IF resource_type \in {"ec2", "nat-gateway"}
    THEN CASE c.describe = "found" -> [name |-> Some(NamedTags[K_Name]), tags |-> NamedTags]
           [] c.describe = "found_nameless" -> [name |-> Some(resource_id[1]), tags |-> PlainTags]
           [] c.describe \in {"empty", "error"} -> [name |-> Some(resource_id[1]), tags |-> EmptyDict]
    ELSE [name |-> Some(resource_id[1]), tags |-> EmptyDict]


(***************************************************************************)
(* The classifier's tables.                                                *)
(***************************************************************************)
\* AWS_SERVICE_ACCOUNTS, as <<account id, service>> in the order of the source
AWS_SERVICE_ACCOUNTS == <<
    <<<<"5","4","7","2","3","6","9","5","0","3","4","7">>, "rds">>,
    <<<<"0","5","5","6","2","5","0","1","6","2","7","9">>, "rds">>,
    <<<<"2","1","0","8","7","6","7","6","1","2","1","5">>, "elasticache">>,
    <<<<"6","2","8","6","7","6","0","1","3","1","6","2">>, "ecs">>,
    <<<<"3","2","6","2","4","4","9","8","7","6","6","4">>, "ecs">>,
    <<<<"5","8","0","3","3","6","0","1","8","5","8","1">>, "route53-resolver">>,
    <<<<"6","8","2","4","3","2","0","3","9","6","5","3">>, "grafana">>,
    <<<<"7","3","7","3","5","3","5","9","3","9","0","8">>, "kinesis-firehose">>,
    <<<<"5","4","2","5","9","1","8","0","4","4","5","5">>, "mq">>,
    <<<<"2","9","5","3","3","0","6","7","1","4","9","5">>, "mq">>
>>

\* SERVICE_MAPPING, as <<requester prefix, service>> in the order of the source
\* (a dict is iterated in insertion order)
SERVICE_MAPPING == <<
    <<<<"a","m","a","z","o","n","-","e","l","b">>, "elb">>,
    <<<<"a","m","a","z","o","n","-","e","l","a","s","t","i","c","l","o","a","d","b","a","l","a","n","c","i","n","g">>, "elb">>,
    <<<<"a","m","a","z","o","n","-","r","d","s">>, "rds">>,
    <<<<"a","m","a","z","o","n","-","r","e","d","s","h","i","f","t">>, "redshift">>,
    <<<<"a","m","a","z","o","n","-","e","l","a","s","t","i","c","a","c","h","e">>, "elasticache">>,
    <<<<"a","m","a","z","o","n","-","n","e","p","t","u","n","e">>, "neptune">>,
    <<<<"a","m","a","z","o","n","-","d","o","c","u","m","e","n","t","d","b">>, "documentdb">>,
    <<<<"a","m","a","z","o","n","-","m","e","m","o","r","y","d","b">>, "memorydb">>,
    <<<<"a","m","a","z","o","n","-","k","e","y","s","p","a","c","e","s">>, "keyspaces">>,
    <<<<"a","m","a","z","o","n","-","d","y","n","a","m","o","d","b">>, "dynamodb">>,
    <<<<"a","m","a","z","o","n","-","e","c","s">>, "ecs">>,
    <<<<"a","m","a","z","o","n","-","e","k","s">>, "eks">>,
    <<<<"a","w","s","-","b","a","t","c","h">>, "batch">>,
    <<<<"a","w","s","-","l","a","m","b","d","a">>, "lambda">>,
    <<<<"a","m","a","z","o","n","-","m","s","k">>, "msk">>,
    <<<<"a","m","a","z","o","n","-","e","m","r">>, "emr">>,
    <<<<"a","w","s","-","g","l","u","e">>, "glue">>,
    <<<<"a","m","a","z","o","n","-","k","i","n","e","s","i","s">>, "kinesis">>,
    <<<<"k","i","n","e","s","i","s","-","f","i","r","e","h","o","s","e">>, "kinesis-firehose">>,
    <<<<"a","m","a","z","o","n","-","k","i","n","e","s","i","s","-","f","i","r","e","h","o","s","e">>, "kinesis-firehose">>,
    <<<<"a","m","a","z","o","n","-","o","p","e","n","s","e","a","r","c","h">>, "opensearch">>,
    <<<<"a","m","a","z","o","n","-","e","l","a","s","t","i","c","s","e","a","r","c","h">>, "elasticsearch">>,
    <<<<"a","w","s","-","s","a","g","e","m","a","k","e","r">>, "sagemaker">>,
    <<<<"a","m","a","z","o","n","-","e","f","s">>, "efs">>,
    <<<<"a","m","a","z","o","n","-","f","s","x">>, "fsx">>,
    <<<<"a","w","s","-","b","a","c","k","u","p">>, "backup">>,
    <<<<"a","w","s","-","s","t","o","r","a","g","e","-","g","a","t","e","w","a","y">>, "storage-gateway">>,
    <<<<"a","m","a","z","o","n","-","m","q">>, "mq">>,
    <<<<"a","m","a","z","o","n","-","c","o","n","n","e","c","t">>, "connect">>,
    <<<<"a","m","a","z","o","n","-","m","w","a","a">>, "mwaa">>,
    <<<<"a","w","s","-","t","r","a","n","s","f","e","r">>, "transfer">>,
    <<<<"a","w","s","-","d","a","t","a","s","y","n","c">>, "datasync">>,
    <<<<"a","m","a","z","o","n","-","d","i","r","e","c","t","o","r","y","-","s","e","r","v","i","c","e">>, "directory-service">>,
    <<<<"a","w","s","-","d","i","r","e","c","t","o","r","y","-","s","e","r","v","i","c","e">>, "directory-service">>,
    <<<<"a","w","s","-","s","e","c","r","e","t","s","-","m","a","n","a","g","e","r">>, "secrets-manager">>,
    <<<<"a","w","s","-","c","l","o","u","d","9">>, "cloud9">>,
    <<<<"a","w","s","-","c","o","d","e","b","u","i","l","d">>, "codebuild">>,
    <<<<"a","m","a","z","o","n","-","w","o","r","k","s","p","a","c","e","s">>, "workspaces">>,
    <<<<"a","m","a","z","o","n","-","a","p","p","s","t","r","e","a","m">>, "appstream">>,
    <<<<"a","w","s","-","a","p","p","-","r","u","n","n","e","r">>, "apprunner">>,
    <<<<"a","w","s","-","a","p","p","-","m","e","s","h">>, "appmesh">>,
    <<<<"a","m","a","z","o","n","-","a","p","i","g","a","t","e","w","a","y">>, "api-gateway">>,
    <<<<"v","p","c","-","e","n","d","p","o","i","n","t">>, "vpc-endpoint">>,
    <<<<"a","w","s","-","g","l","o","b","a","l","-","a","c","c","e","l","e","r","a","t","o","r">>, "global-accelerator">>,
    <<<<"a","w","s","-","n","e","t","w","o","r","k","-","f","i","r","e","w","a","l","l">>, "network-firewall">>,
    <<<<"a","w","s","-","v","e","r","i","f","i","e","d","-","a","c","c","e","s","s">>, "verified-access">>,
    <<<<"a","w","s","-","t","r","a","n","s","i","t","-","g","a","t","e","w","a","y">>, "transit-gateway">>,
    <<<<"a","w","s","-","i","o","t">>, "iot">>,
    <<<<"a","w","s","-","i","o","t","-","g","r","e","e","n","g","r","a","s","s">>, "iot-greengrass">>,
    <<<<"a","m","a","z","o","n","-","q","u","i","c","k","s","i","g","h","t">>, "quicksight">>,
    <<<<"a","w","s","-","l","a","k","e","-","f","o","r","m","a","t","i","o","n">>, "lake-formation">>,
    <<<<"a","m","a","z","o","n","-","a","t","h","e","n","a">>, "athena">>,
    <<<<"a","m","a","z","o","n","-","g","r","a","f","a","n","a">>, "grafana">>,
    <<<<"a","w","s","g","r","a","f","a","n","a">>, "grafana">>,
    <<<<"r","o","u","t","e","5","3","-","r","e","s","o","l","v","e","r">>, "route53-resolver">>,
    <<<<"a","w","s","-","r","o","u","t","e","5","3","-","r","e","s","o","l","v","e","r">>, "route53-resolver">>,
    <<<<"a","m","a","z","o","n","-","a","w","s">>, "aws-managed-service">>
>>

\* type_mapping of identify_resource, as <<interface type, resource type>>
type_mapping == <<
    <<"nat_gateway", "nat-gateway">>,
    <<"vpc_endpoint", "vpc-endpoint">>,
    <<"gateway_load_balancer_endpoint", "vpc-endpoint">>,
    <<"network_load_balancer", "elb">>,
    <<"gateway_load_balancer", "elb">>,
    <<"load_balancer", "elb">>,
    <<"lambda", "lambda">>,
    <<"efa", "ec2">>,
    <<"trunk", "ec2">>,
    <<"branch", "ec2">>,
    <<"api_gateway_managed", "api-gateway">>,
    <<"iot_rules_managed", "iot">>,
    <<"global_accelerator_managed", "global-accelerator">>,
    <<"transit_gateway", "transit-gateway">>,
    <<"transit_gateway_attachment", "transit-gateway">>,
    <<"network_insights_analysis", "network-insights">>,
    <<"quicksight", "quicksight">>,
    <<"aws_codestar_connections_managed", "codestar">>,
    <<"elasticmapreduce", "emr">>
>>

(***************************************************************************)
(* The descriptions the classifier is run on: texts of the shapes AWS      *)
(* produces, free texts an operator may type, and the text "N/A".          *)
(***************************************************************************)
SampleDescriptions == <<
    <<>>,
    <<"a","w","s","-","K","8","S","-","i","-","0","a","b">>,
    <<"a","w","s","-","K","8","S","-","E","L","B"," ","a","p","p","/","a","/","1","f">>,
    <<"E","L","B"," ","a","p","p","/","m","y","-","a","l","b","/","5","0","d","c">>,
    <<"R","D","S","N","e","t","w","o","r","k","I","n","t","e","r","f","a","c","e">>,
    <<"V","P","C"," ","E","n","d","p","o","i","n","t"," ","I","n","t","e","r","f","a","c","e"," ","v","p","c","e","-","0","a","1","b">>,
    <<"R","o","u","t","e"," ","5","3"," ","R","e","s","o","l","v","e","r",":"," ","r","s","l","v","r","-","i","n","-","5","a">>,
    <<"F","S","x"," ","f","i","l","e"," ","s","y","s","t","e","m"," ","f","s","-","0","1","a","b">>,
    <<"A","W","S"," ","G","l","u","e"," ","j","o","b">>,
    <<"M","e","m","o","r","y","D","B"," ","c","l","u","s","t","e","r">>,
    <<"P","r","i","m","a","r","y"," ","n","e","t","w","o","r","k"," ","i","n","t","e","r","f","a","c","e">>,
    <<"a","w","s","v","p","c"," ","t","a","s","k"," ","i","n","t","e","r","f","a","c","e"," ","o","f"," ","t","h","e"," ","l","o","n","g","-","n","a","m","e","d"," ","p","a","y","m","e","n","t","s"," ","w","o","r","k","e","r">>,
    <<"I","n","t","e","r","f","a","c","e"," ","c","r","e","a","t","e","d"," ","b","y"," ","t","h","e"," ","p","l","a","t","f","o","r","m"," ","t","e","a","m"," ","f","o","r"," ","t","h","e"," ","n","i","g","h","t","l","y"," ","e","x","p","o","r","t"," ","j","o","b",","," ","s","e","e"," ","t","h","e"," ","r","u","n","b","o","o","k"," ","p","a","g","e"," ","f","o","r"," ","t","h","e"," ","d","e","t","a","i","l","s">>,
    <<"N","/","A">>
>>

\* ParseDescription of each sample description, computed once
ParsedSamples == [d \in Range(SampleDescriptions) |-> ParseDescription(d)]

parse_resource_from_description(d) ==
    IF d \in DOMAIN ParsedSamples THEN ParsedSamples[d] ELSE ParseDescription(d)

(***************************************************************************)
(* identify_resource.  An interface record e has Description and           *)
(* RequesterId (texts; a missing key reads as ''), Attachment and           *)
(* InterfaceType (optional), TagSet (a list of Key/Value entries) and the  *)
(* location fields VpcId, SubnetId, AvailabilityZone.                      *)
(***************************************************************************)
PodMarker == <<"a","w","s","-","K","8","S","-">>
K_cluster == <<"c","l","u","s","t","e","r",".","k","8","s",".","a","m","a","z","o","n","a","w","s",".","c","o","m","/","n","a","m","e">>
K_node == <<"n","o","d","e",".","k","8","s",".","a","m","a","z","o","n","a","w","s",".","c","o","m","/","i","n","s","t","a","n","c","e","_","i","d">>
K_grafana_managed == <<"A","m","a","z","o","n","G","r","a","f","a","n","a","M","a","n","a","g","e","d">>
K_grafana_workspace == <<"a","w","s",":","g","r","a","f","a","n","a",":","w","o","r","k","s","p","a","c","e","-","i","d">>
EksTagPrefixes == {<<"e","k","s",":">>, <<"c","l","u","s","t","e","r",".","k","8","s",".">>, <<"n","o","d","e",".","k","8","s",".">>}
FallbackIdLen == 100
AwsManaged == <<"a","w","s","-","m","a","n","a","g","e","d">>
LocationTypes == {"rds", "elasticache", "redshift", "neptune", "documentdb", "memorydb"}

eni_info(e) == [vpc_id |-> e.VpcId, subnet_id |-> e.SubnetId, availability_zone |-> e.AvailabilityZone]

\* the descriptor identify_resource starts from
InitialResult(e) ==
    [resource_type |-> "unknown", resource_id |-> NA, resource_name |-> NA,
     resource_tags |-> EmptyDict, requester_id |-> e.RequesterId,
     requester_managed |-> e.RequesterManaged]

\* eni.get('Attachment', {})
AttachmentOf(e) == IF e.Attachment = None THEN EmptyDict ELSE e.Attachment[1]

\* Method 1: the description starts with the pod marker
IsPodEni(e) == StartsWith(e.Description, PodMarker)

\* a faulty PodResult that prefers the attachment's instance id to the node tag
PodResult_attachment_first(e) ==
    LET eni_tags == TagDict(e.TagSet)
        cluster_name == DictGet(eni_tags, K_cluster, <<"u","n","k","n","o","w","n">>)
        instance_id == DictGet(AttachmentOf(e), "InstanceId", DictGet(eni_tags, K_node, <<"u","n","k","n","o","w","n">>))
    IN  [InitialResult(e) EXCEPT
            !.resource_type = "eks-pod",
            !.resource_id = cluster_name \o <<"/">> \o instance_id,
            !.resource_name = cluster_name]

PodResult(e) ==
    LET eni_tags == TagDict(e.TagSet)
        cluster_name == DictGet(eni_tags, K_cluster, <<"u","n","k","n","o","w","n">>)
        instance_id == DictGet(eni_tags, K_node, DictGet(AttachmentOf(e), "InstanceId", <<"u","n","k","n","o","w","n">>))
        eks_keys == {k \in DOMAIN eni_tags : \E p \in EksTagPrefixes : StartsWith(k, p)}
    IN  [InitialResult(e) EXCEPT
            !.resource_type = "eks-pod",
            !.resource_id = cluster_name \o <<"/">> \o instance_id,
            !.resource_name = cluster_name,
            !.resource_tags = [k \in eks_keys |-> eni_tags[k]]]

\* a faulty AttachedInstance that reads a misspelt key
AttachedInstance_wrong_key(e) == DictGetOpt(AttachmentOf(e), "InstanceID")

\* Method 2: attachment.get('InstanceId')
AttachedInstance(e) == DictGetOpt(AttachmentOf(e), "InstanceId")

\* Method 3: the declared interface type, through type_mapping
InterfaceTypeRule(r, e) ==
    LET interface_type == IF e.InterfaceType = None THEN "interface" ELSE e.InterfaceType[1]
        hits == {k \in 1..Len(type_mapping) : type_mapping[k][1] = interface_type}
    IN  IF interface_type # "interface"
        THEN [r EXCEPT !.resource_type =
                 IF hits = {} THEN interface_type ELSE type_mapping[CHOOSE k \in hits : TRUE][2]]
        ELSE r

\* a faulty TagMarkerRule that, like the requester rule, only fills in a type
\* that is still "unknown"
TagMarkerRule_only_unknown(r, e) ==
    LET tags == TagDict(e.TagSet)
        workspace_id == DictGet(tags, K_grafana_workspace, <<"m","a","n","a","g","e","d">>)
    IN  IF (K_grafana_managed \in DOMAIN tags \/ K_grafana_workspace \in DOMAIN tags)
           /\ r.resource_type = "unknown"
        THEN [r EXCEPT !.resource_type = "grafana",
                       !.resource_id = IF workspace_id # <<"m","a","n","a","g","e","d">> THEN workspace_id ELSE @]
        ELSE r

\* Method 4: service marker tags
TagMarkerRule(r, e) ==
    LET tags == TagDict(e.TagSet)
        workspace_id == DictGet(tags, K_grafana_workspace, <<"m","a","n","a","g","e","d">>)
    IN  IF K_grafana_managed \in DOMAIN tags \/ K_grafana_workspace \in DOMAIN tags
        THEN [r EXCEPT !.resource_type = "grafana",
                       !.resource_id = IF workspace_id # <<"m","a","n","a","g","e","d">> THEN workspace_id ELSE @]
        ELSE r

\* a faulty RequesterRule in which the longest matching prefix decides
RequesterRule_longest_prefix(r, e) ==
    LET requester_id == e.RequesterId
        t1 == IF Contains(Lower(requester_id), <<"g","r","a","f","a","n","a">>) /\ r.resource_type = "unknown"
              THEN "grafana" ELSE r.resource_type
        accounts == {k \in 1..Len(AWS_SERVICE_ACCOUNTS) : AWS_SERVICE_ACCOUNTS[k][1] = requester_id}
        prefixes == {k \in 1..Len(SERVICE_MAPPING) : StartsWith(requester_id, SERVICE_MAPPING[k][1])}
        longest == CHOOSE k \in prefixes :
                      \A k2 \in prefixes : Len(SERVICE_MAPPING[k][1]) >= Len(SERVICE_MAPPING[k2][1])
    IN  IF requester_id = <<>> THEN r
        ELSE IF accounts # {}
        THEN [r EXCEPT !.resource_type =
                 IF t1 = "unknown" THEN AWS_SERVICE_ACCOUNTS[CHOOSE k \in accounts : TRUE][2] ELSE t1]
        ELSE IF prefixes # {}
        THEN [r EXCEPT !.resource_type = IF t1 = "unknown" THEN SERVICE_MAPPING[longest][2] ELSE t1]
        ELSE [r EXCEPT !.resource_type = t1]

\* Method 5: the requester id
RequesterRule(r, e) ==
    LET requester_id == e.RequesterId
        t1 == IF Contains(Lower(requester_id), <<"g","r","a","f","a","n","a">>) /\ r.resource_type = "unknown"
              THEN "grafana" ELSE r.resource_type
        accounts == {k \in 1..Len(AWS_SERVICE_ACCOUNTS) : AWS_SERVICE_ACCOUNTS[k][1] = requester_id}
        prefixes == {k \in 1..Len(SERVICE_MAPPING) : StartsWith(requester_id, SERVICE_MAPPING[k][1])}
        first == CHOOSE k \in prefixes : \A k2 \in prefixes : k <= k2
    IN  IF requester_id = <<>> THEN r
        ELSE IF accounts # {}
        THEN [r EXCEPT !.resource_type =
                 IF t1 = "unknown" THEN AWS_SERVICE_ACCOUNTS[CHOOSE k \in accounts : TRUE][2] ELSE t1]
        ELSE IF prefixes # {}
        THEN [r EXCEPT !.resource_type = IF t1 = "unknown" THEN SERVICE_MAPPING[first][2] ELSE t1]
        ELSE [r EXCEPT !.resource_type = t1]

\* lines 989-1006 for what parse_resource_from_description returned
Described(r, e, c, parsed) ==
    IF parsed.type = None THEN [result |-> r, lookups |-> <<>>]
    ELSE IF Truthy(parsed.id)
    THEN CHOOSE out \in
            {[result |-> [r EXCEPT !.resource_type = parsed.type[1],
                                   !.resource_id = parsed.id[1],
                                   !.resource_name = by_id.name[1],
                                   !.resource_tags = by_id.tags],
              lookups |-> <<[type |-> parsed.type[1], id |-> parsed.id, eni_data |-> TRUE]>>] :
             by_id \in {get_resource_by_id(parsed.type[1], parsed.id, Some(eni_info(e)), c)}} : TRUE
    ELSE IF parsed.type[1] \in LocationTypes
    THEN CHOOSE out \in
            {[result |-> IF Truthy(by_location.name) /\ by_location.name # Some(NA)
                         THEN [r EXCEPT !.resource_type = parsed.type[1],
                                        !.resource_id = by_location.name[1],
                                        !.resource_name = by_location.name[1],
                                        !.resource_tags = by_location.tags]
                         ELSE [r EXCEPT !.resource_type = parsed.type[1]],
              lookups |-> <<[type |-> parsed.type[1], id |-> None, eni_data |-> TRUE]>>] :
             by_location \in {get_resource_by_id(parsed.type[1], None, Some(eni_info(e)), c)}} : TRUE
    ELSE [result |-> [r EXCEPT !.resource_type = parsed.type[1]], lookups |-> <<>>]

\* a faulty DescriptionStep that, like the requester rule, only fills in a
\* type that is still "unknown"
DescriptionStep_keeps_earlier_type(r, e, c) ==
    IF r.resource_type # "unknown" THEN [result |-> r, lookups |-> <<>>]
    ELSE CHOOSE out \in {Described(r, e, c, parsed) :
                           parsed \in {parse_resource_from_description(e.Description)}} : TRUE

\* Method 6: the description rules; gives the descriptor and the lookups made
DescriptionStep(r, e, c) ==
    CHOOSE out \in {Described(r, e, c, parsed) :
                      parsed \in {parse_resource_from_description(e.Description)}} : TRUE

\* a faulty FallbackId that does not look at the type
FallbackId_any_type(r, e) ==
    IF r.resource_id = NA
    THEN [r EXCEPT !.resource_id =
             IF e.Description # <<>> THEN Prefix(e.Description, FallbackIdLen) ELSE AwsManaged]
    ELSE r

\* a faulty FallbackId without the default for an empty description
FallbackId_no_default(r, e) ==
    IF r.resource_id = NA /\ r.resource_type # "unknown"
    THEN [r EXCEPT !.resource_id = Prefix(e.Description, FallbackIdLen)]
    ELSE r

\* the closing fallback for a typed descriptor without an id
FallbackId(r, e) ==
    IF r.resource_id = NA /\ r.resource_type # "unknown"
    THEN [r EXCEPT !.resource_id =
             IF e.Description # <<>> THEN Prefix(e.Description, FallbackIdLen) ELSE AwsManaged]
    ELSE r

\* Method 2 for the instance id of the attachment
Ec2Result(e, c, instance_id) ==
    CHOOSE out \in
        {[result |-> [InitialResult(e) EXCEPT
                         !.resource_type = "ec2",
                         !.resource_id = instance_id[1],
                         !.resource_name = found.name[1],
                         !.resource_tags = found.tags],
          lookups |-> <<[type |-> "ec2", id |-> instance_id, eni_data |-> FALSE]>>] :
         found \in {get_resource_by_id("ec2", instance_id, None, c)}} : TRUE

\* Methods 3 to 6 and the closing fallback, each on the descriptor the one
\* before left
Cascade(e, c) ==
    CHOOSE out \in
        {[result |-> FallbackId(described.result, e), lookups |-> described.lookups] :
         described \in
            {DescriptionStep(by_requester, e, c) :
             by_requester \in
                {RequesterRule(by_tags, e) :
                 by_tags \in
                    {TagMarkerRule(by_interface_type, e) :
                     by_interface_type \in {InterfaceTypeRule(InitialResult(e), e)}}}}} : TRUE

\* identify_resource(eni): the descriptor returned and the get_resource_by_id
\* calls made on the way
identify_resource(e, c) ==
    IF IsPodEni(e) THEN [result |-> PodResult(e), lookups |-> <<>>]
    ELSE IF Truthy(AttachedInstance(e))
    THEN CHOOSE out \in {Ec2Result(e, c, instance_id) : instance_id \in {AttachedInstance(e)}} : TRUE
    ELSE Cascade(e, c)

(***************************************************************************)
(* The interface records and cloud answers the classifier is run on.       *)
(***************************************************************************)
InstanceI == <<"i","-","0","a","b","c">>

SampleAttachments == <<
    None,
    Some("Status" :> <<"d","e","t","a","c","h","e","d">>),
    Some(("InstanceId" :> InstanceI) @@ ("Status" :> <<"a","t","t","a","c","h","e","d">>))
>>

SampleInterfaceTypes == <<None, Some("interface"), Some("lambda"), Some("efa-only"), Some("")>>

Tag(k, v) == [Key |-> k, Value |-> v]

SampleTagSets == <<
    <<>>,
    <<Tag(K_grafana_managed, <<"t","r","u","e">>)>>,
    <<Tag(K_grafana_workspace, <<"g","-","1","a">>), Tag(<<"t","e","a","m">>, <<"o","b","s">>)>>,
    <<Tag(K_grafana_workspace, <<"m","a","n","a","g","e","d">>)>>,
    <<Tag(K_cluster, <<"p","r","o","d">>), Tag(K_node, <<"i","-","0","n","o","d","e">>), Tag(<<"t","e","a","m">>, <<"o","b","s">>)>>,
    <<Tag(<<"e","k","s",":","e","n","i",":","o","w","n","e","r">>, <<"c","n","i">>), Tag(K_cluster, <<"p","r","o","d">>)>>
>>

SampleRequesters == <<
    <<>>,
    <<"5","4","7","2","3","6","9","5","0","3","4","7">>,
    <<"a","m","a","z","o","n","-","e","l","b">>,
    <<"a","m","a","z","o","n","-","k","i","n","e","s","i","s","-","f","i","r","e","h","o","s","e">>,
    <<"a","w","s","-","i","o","t","-","g","r","e","e","n","g","r","a","s","s">>,
    <<"A","R","O","A","E","X","A","M","P","L","E",":","G","r","a","f","a","n","a","S","e","s","s","i","o","n">>,
    <<"1","2","3","4","5","6","7","8","9","0","1","2">>
>>

\* the interface record built from the d-th description, a-th attachment, ...
SampleEni(d, a, i, t, q) ==
    [Description |-> SampleDescriptions[d], Attachment |-> SampleAttachments[a],
     InterfaceType |-> SampleInterfaceTypes[i], TagSet |-> SampleTagSets[t],
     RequesterId |-> SampleRequesters[q], RequesterManaged |-> (q \in 2..5),
     VpcId |-> "vpc-1", SubnetId |-> "subnet-1", AvailabilityZone |-> "az-a"]

SampleEnis ==
    {SampleEni(d, a, i, t, q) :
        d \in DOMAIN SampleDescriptions, a \in DOMAIN SampleAttachments,
        i \in DOMAIN SampleInterfaceTypes, t \in DOMAIN SampleTagSets,
        q \in DOMAIN SampleRequesters}

Cloud(tagging, describe, rds) == [tagging |-> tagging, describe |-> describe, rds |-> rds]

\* every combination of answers
AllClouds == {Cloud(t, d, r) : t \in TaggingAnswers, d \in DescribeAnswers, r \in RdsAnswers}

\* the combinations the classifier is run against
ClassifierClouds ==
    {Cloud("named", "found", "match"), Cloud("tagged", "found", "none"),
     Cloud("tagged", "empty", "match_tags_error"), Cloud("empty", "found_nameless", "other_az"),
     Cloud("error", "error", "error")}

NoDescriptor == [resource_type |-> "(none)", resource_id |-> <<>>, resource_name |-> <<>>,
                 resource_tags |-> EmptyDict, requester_id |-> <<>>, requester_managed |-> FALSE]
NoCall == [resource_type |-> "(none)", resource_id |-> None, eni_data |-> None]
NoReturn == [name |-> None, tags |-> EmptyDict]

\* the flow-log handler not invoked
HandlerIdle ==
    /\ objects = <<>>
    /\ pubIdx = 0
    /\ attempts = <<>>
    /\ deletes = <<>>
    /\ total_summaries = 0
    /\ published_count = 0
    /\ failed_count = 0
    /\ handler_result = <<>>
    /\ APPSYNC_API_KEY = None
    /\ ssm_calls = 0
    /\ invocation = 0
    /\ hpc = "idle"

\* no lifecycle event delivered
EventsIdle ==
    /\ store = <<>>
    /\ stored_before = <<>>
    /\ lifecycle_event = <<>>
    /\ response = <<>>
    /\ latest = <<>>
    /\ disturbed = FALSE
    /\ handled = 0

\* no synthesis of virtual interfaces under way
SynthesisIdle ==
    /\ subnets = <<>>
    /\ igws = <<>>
    /\ virtual_appliances = <<>>
    /\ spc = "idle"

\* no discovery pass under way
PassIdle ==
    /\ network_interfaces = <<>>
    /\ stats = <<>>
    /\ pass_log = <<>>
    /\ ppc = "idle"

\* the web application has no request
WebIdle ==
    /\ vpc_list = <<>>
    /\ vpc_map = {}
    /\ map_before = {}
    /\ requests = <<>>
    /\ refresh_response = <<>>

\* the aggregator at rest
AggregatorIdle ==
    /\ files = <<>>
    /\ fileIdx = 0
    /\ linePos = 0
    /\ summaries = <<>>
    /\ processed_lines = 0
    /\ skipped_lines = 0
    /\ returned = <<>>
    /\ printed = <<>>
    /\ clock = 0
    /\ apc = "idle"

InitClassify ==
    /\ eni \in SampleEnis
    /\ cloud \in ClassifierClouds
    /\ result = NoDescriptor
    /\ lookups = <<>>
    /\ call = NoCall
    /\ ret = NoReturn
    /\ cpc = "start"
    /\ AggregatorIdle
    /\ HandlerIdle
    /\ EventsIdle
    /\ SynthesisIdle
    /\ PassIdle
    /\ WebIdle

\* one call of identify_resource on the interface record
IdentifyResource ==
    /\ cpc = "start"
    /\ LET returns == identify_resource(eni, cloud)
       IN  /\ result' = returns.result
           /\ lookups' = returns.lookups
    /\ cpc' = "identified"
    /\ UNCHANGED <<eni, cloud, call, ret>>
    /\ UNCHANGED avars
    /\ UNCHANGED hvars
    /\ UNCHANGED evars
    /\ UNCHANGED xvars

NextClassify == IdentifyResource

SpecClassify == InitClassify /\ [][NextClassify]_vars

(***************************************************************************)
(* Resource Lookup called on its own: any resource type, an id that is     *)
(* present, empty or None, with and without the interface's location.      *)
(***************************************************************************)
LookupTypes == {"ec2", "rds", "vpc-endpoint", "nat-gateway", "elb", "memorydb",
                "route53-resolver-inbound", "unknown"}
LookupIds == {None, Some(<<>>), Some(<<"r","e","s","-","1">>)}

InitLookup ==
    /\ eni = SampleEni(5, 1, 1, 1, 1)
    /\ cloud \in AllClouds
    /\ result = NoDescriptor
    /\ lookups = <<>>
    /\ call = NoCall
    /\ ret = NoReturn
    /\ cpc = "start"
    /\ AggregatorIdle
    /\ HandlerIdle
    /\ EventsIdle
    /\ SynthesisIdle
    /\ PassIdle
    /\ WebIdle

\* one call of get_resource_by_id
GetResourceById ==
    /\ cpc = "start"
    /\ \E t \in LookupTypes, id \in LookupIds, data \in {None, Some(eni_info(eni))} :
          /\ call' = [resource_type |-> t, resource_id |-> id, eni_data |-> data]
          /\ ret' = get_resource_by_id(t, id, data, cloud)
    /\ cpc' = "looked_up"
    /\ UNCHANGED <<eni, cloud, result, lookups>>
    /\ UNCHANGED avars
    /\ UNCHANGED hvars
    /\ UNCHANGED evars
    /\ UNCHANGED xvars

NextLookup == GetResourceById

SpecLookup == InitLookup /\ [][NextLookup]_vars

(***************************************************************************)
(* Properties of identify_resource (SpecClassify).  The conditions on the  *)
(* interface record are written on the record itself, not through the      *)
(* operators of the cascade.                                               *)
(***************************************************************************)
Identified == cpc = "identified"

\* the record's description begins with the pod marker
HasPodMarker == StartsWith(eni.Description, PodMarker)

\* the record's attachment carries a non-empty instance id
HasInstance ==
    /\ eni.Attachment # None
    /\ "InstanceId" \in DOMAIN eni.Attachment[1]
    /\ eni.Attachment[1]["InstanceId"] # <<>>

\* C1 as stated: every interface whose attachment carries a non-empty
\* instance id is classified "ec2" with that instance id, whatever its
\* description (pod-marker descriptions included), tags, interface type and
\* requester id are.
C1_AttachmentAlwaysEc2 ==
    Identified /\ HasInstance =>
        /\ result.resource_type = "ec2"
        /\ result.resource_id = eni.Attachment[1]["InstanceId"]

\* C1 amended: every interface whose attachment carries a non-empty instance
\* id and whose description does not begin with the pod marker is classified
\* "ec2" with that instance id, whatever its tags, interface type and
\* requester id are.
C1_AttachmentEc2UnlessPod ==
    Identified /\ HasInstance /\ ~HasPodMarker =>
        /\ result.resource_type = "ec2"
        /\ result.resource_id = eni.Attachment[1]["InstanceId"]

\* an attached interface with a description that alone would classify as
\* "elb", an interface type, a service-marker tag and a requester: it is "ec2"
C1_Witness ==
    /\ Identified
    /\ HasInstance
    /\ eni.Description = <<"E","L","B"," ","a","p","p","/","m","y","-","a","l","b","/","5","0","d","c">>
    /\ eni.InterfaceType = Some("lambda")
    /\ eni.RequesterId = <<"a","m","a","z","o","n","-","e","l","b">>
    /\ K_grafana_managed \in DOMAIN TagDict(eni.TagSet)
    /\ result.resource_type = "ec2"
    /\ result.resource_id = InstanceI

\* the cluster and instance parts of a pod interface's id, from the record
PodCluster ==
    IF \E j \in 1..Len(eni.TagSet) : eni.TagSet[j].Key = K_cluster
    THEN TagDict(eni.TagSet)[K_cluster] ELSE <<"u","n","k","n","o","w","n">>

PodInstance ==
    IF \E j \in 1..Len(eni.TagSet) : eni.TagSet[j].Key = K_node
    THEN TagDict(eni.TagSet)[K_node]
    ELSE IF eni.Attachment # None /\ "InstanceId" \in DOMAIN eni.Attachment[1]
    THEN eni.Attachment[1]["InstanceId"]
    ELSE <<"u","n","k","n","o","w","n">>

\* C2: every interface whose description begins with the pod marker is
\* classified "eks-pod" with id "{cluster}/{instance}" (cluster from the
\* cluster-name tag or "unknown"; instance from the node tag, else the
\* attachment, else "unknown"), whatever the interface type, marker tags,
\* requester id and rest of the description are, and without any lookup.
C2_PodMarkerShortCircuits ==
    Identified /\ HasPodMarker =>
        /\ result.resource_type = "eks-pod"
        /\ result.resource_id = PodCluster \o <<"/">> \o PodInstance
        /\ lookups = <<>>

\* a pod interface with node tag and attachment naming different instances,
\* whose description also matches the load-balancer rule
C2_Witness ==
    /\ Identified
    /\ eni.Description = <<"a","w","s","-","K","8","S","-","E","L","B"," ","a","p","p","/","a","/","1","f">>
    /\ HasInstance
    /\ eni.InterfaceType = Some("lambda")
    /\ eni.RequesterId = <<"a","m","a","z","o","n","-","e","l","b">>
    /\ result.resource_type = "eks-pod"
    /\ result.resource_id = <<"p","r","o","d","/","i","-","0","n","o","d","e">>

\* C3 as stated: the descriptor's resource_type is a non-empty string for
\* every interface record, whatever the declared interface type is.
C3_TypeNeverEmpty == Identified => result.resource_type # ""

\* the requester id matches no service account, prefix or substring
RequesterSilent ==
    \/ eni.RequesterId = <<>>
    \/ /\ \A k \in 1..Len(AWS_SERVICE_ACCOUNTS) : AWS_SERVICE_ACCOUNTS[k][1] # eni.RequesterId
       /\ \A k \in 1..Len(SERVICE_MAPPING) : ~StartsWith(eni.RequesterId, SERVICE_MAPPING[k][1])
       /\ ~Contains(Lower(eni.RequesterId), <<"g","r","a","f","a","n","a">>)

\* the record carries one of the two service-marker tags
HasMarkerTag ==
    \E j \in 1..Len(eni.TagSet) : eni.TagSet[j].Key \in {K_grafana_managed, K_grafana_workspace}

\* the description is empty or matches no description rule
DescriptionSilent == parse_resource_from_description(eni.Description).type = None

NoSignal ==
    /\ ~HasPodMarker
    /\ ~HasInstance
    /\ eni.InterfaceType \in {None, Some("interface")}
    /\ ~HasMarkerTag
    /\ RequesterSilent
    /\ DescriptionSilent

\* C4: an interface with no signal at all (no pod marker, no attached
\* instance, interface type absent or "interface", no marker tag, requester
\* empty or matching nothing, description empty or matching no rule) is
\* classified "unknown" with id "N/A", and no lookup is made.
C4_NoSignalUnknown ==
    Identified /\ NoSignal =>
        /\ result.resource_type = "unknown"
        /\ result.resource_id = NA
        /\ lookups = <<>>

\* a no-signal interface that has a description, tags and a requester
C4_Witness ==
    /\ Identified
    /\ NoSignal
    /\ eni.Description = <<"P","r","i","m","a","r","y"," ","n","e","t","w","o","r","k"," ","i","n","t","e","r","f","a","c","e">>
    /\ eni.RequesterId = <<"1","2","3","4","5","6","7","8","9","0","1","2">>
    /\ eni.TagSet # <<>>
    /\ eni.Attachment # None
    /\ result.resource_id = NA

\* C5: without pod marker and attached instance, a description that matches
\* a rule sets the final resource_type to the type of its first matching
\* rule, over whatever interface type, marker tags and requester had set.
C5_DescriptionOverwrites ==
    Identified /\ ~HasPodMarker /\ ~HasInstance /\ ~DescriptionSilent =>
        result.resource_type = parse_resource_from_description(eni.Description).type[1]

\* interface type, marker tag and requester each name another service than
\* the description does
C5_Witness ==
    /\ Identified
    /\ ~HasInstance
    /\ eni.Description = <<"V","P","C"," ","E","n","d","p","o","i","n","t"," ","I","n","t","e","r","f","a","c","e"," ","v","p","c","e","-","0","a","1","b">>
    /\ eni.InterfaceType = Some("lambda")
    /\ HasMarkerTag
    /\ eni.RequesterId = <<"a","m","a","z","o","n","-","e","l","b">>
    /\ result.resource_type = "vpc-endpoint"

\* a rule or a lookup supplied the identifier of the descriptor
IdSupplied ==
    \/ HasPodMarker
    \/ HasInstance
    \/ \E j \in 1..Len(eni.TagSet) :
          eni.TagSet[j].Key = K_grafana_workspace /\ TagDict(eni.TagSet)[K_grafana_workspace] # <<"m","a","n","a","g","e","d">>
    \/ Truthy(parse_resource_from_description(eni.Description).id)
    \/ /\ lookups # <<>>
       /\ lookups[1].id = None
       /\ result.resource_name # NA

\* the id the closing fallback gives
DescriptionOrDefault ==
    IF eni.Description = <<>> THEN AwsManaged
    ELSE IF Len(eni.Description) <= FallbackIdLen THEN eni.Description
    ELSE SubSeq(eni.Description, 1, FallbackIdLen)

LookedUp == cpc = "looked_up"

\* every backing call finds nothing or fails
NothingFound ==
    /\ cloud.tagging \in {"empty", "error"}
    /\ cloud.describe \in {"empty", "error"}
    /\ cloud.rds \in {"none", "other_vpc", "other_subnet", "other_az", "error"}

\* C7 as stated: get_resource_by_id never returns an absent name, for every
\* resource type, id (absent included) and outcome of the backing calls; on
\* failure or no match the name is the given id, or "N/A" when the id is
\* absent, and the tag set is empty.
C7_LookupNeverAbsent ==
    LookedUp =>
        /\ ret.name # None
        /\ NothingFound =>
              /\ ret.name = (IF Truthy(call.resource_id) THEN call.resource_id ELSE Some(NA))
              /\ ret.tags = EmptyDict

(***************************************************************************)
(* The flow-log aggregator, process_vpc_flow_log_file.  A file is the      *)
(* sequence of lines content.strip().split('\n') gives; a line is text.    *)
(***************************************************************************)
Min(a, b) == IF a <= b THEN a ELSE b
Max(a, b) == IF a >= b THEN a ELSE b

\* not s.strip()
IsBlank(s) == \A k \in 1..Len(s) : s[k] \in Whitespace

\* s.split(' '): the pieces between single spaces, empty pieces included
Split(s) ==
    LET spaces == {k \in 1..Len(s) : s[k] = " "}
        n == Cardinality(spaces) + 1
        cut(j) == IF j = 0 THEN 0
                  ELSE IF j = n THEN Len(s) + 1
                  ELSE CHOOSE p \in spaces : Cardinality({q \in spaces : q <= p}) = j
    IN  [j \in 1..n |-> SubSeq(s, cut(j - 1) + 1, cut(j) - 1)]

DigitValue(c) == CHOOSE k \in 0..9 : DigitChars[k + 1] = c

RECURSIVE DigitsValue(_)
DigitsValue(s) ==
    IF s = <<>> THEN 0
    ELSE 10 * DigitsValue(SubSeq(s, 1, Len(s) - 1)) + DigitValue(s[Len(s)])

\* int(s) for a field: an optional sign and decimal digits; anything else
\* is a ValueError (ok = FALSE)
ParseInt(s) ==
    LET signed == s # <<>> /\ s[1] \in {"+", "-"}
        body == IF signed THEN Tail(s) ELSE s
        ok == body # <<>> /\ \A k \in 1..Len(body) : body[k] \in Digits
    IN  [ok |-> ok,
         value |-> IF ~ok THEN 0
                   ELSE IF signed /\ s[1] = "-" THEN 0 - DigitsValue(body)
                   ELSE DigitsValue(body)]

RECURSIVE NatToText(_)
NatToText(n) ==
    IF n < 10 THEN <<DigitChars[n + 1]>>
    ELSE NatToText(n \div 10) \o <<DigitChars[(n % 10) + 1]>>

\* str(n) of an int, as f-strings format it
IntToText(n) == IF n < 0 THEN <<"-">> \o NatToText(0 - n) ELSE NatToText(n)

\* json.loads(line) for an object of one member whose value is a string
\* without escapes, null or a number, the shape of the envelopes in the
\* files modelled; other text is a JSONDecodeError (ok = FALSE)
JsonLoads(line) ==
    LET n == Len(line)
        quotes == {k \in 3..n : line[k] = "\""}
        q == CHOOSE k \in quotes : \A k2 \in quotes : k <= k2
        v == IF q + 2 <= n /\ line[q + 2] = " " THEN q + 3 ELSE q + 2
        value == SubSeq(line, v, n - 1)
        inner == SubSeq(value, 2, Len(value) - 1)
        shaped == /\ n >= 6
                  /\ line[1] = "{" /\ line[2] = "\"" /\ line[n] = "}"
                  /\ quotes # {}
                  /\ q + 1 <= n /\ line[q + 1] = ":"
                  /\ v <= n - 1
        kind == IF Len(value) >= 2 /\ value[1] = "\"" /\ value[Len(value)] = "\""
                   /\ \A k \in 1..Len(inner) : inner[k] \notin {"\"", "\\"}
                THEN "str"
                ELSE IF value = <<"n","u","l","l">> THEN "null"
                ELSE IF ParseInt(value).ok THEN "number"
                ELSE "invalid"
    IN  IF shaped /\ kind # "invalid"
        THEN [ok |-> TRUE, key |-> SubSeq(line, 3, q - 1), kind |-> kind,
              text |-> IF kind = "str" THEN inner ELSE <<>>]
        ELSE [ok |-> FALSE, key |-> <<>>, kind |-> "invalid", text |-> <<>>]

\* lines 135-142: the log line inside a JSON envelope, the line itself
\* otherwise; is_text is FALSE when the message member is not a string
ActualLogLine(line) ==
    LET json_data == JsonLoads(line)
    IN  IF StartsWith(line, <<"{">>) /\ Contains(line, <<"\"","m","e","s","s","a","g","e","\"">>)
           /\ json_data.ok /\ json_data.key = <<"m","e","s","s","a","g","e">>
        THEN [is_text |-> json_data.kind = "str", text |-> json_data.text]
        ELSE [is_text |-> TRUE, text |-> line]

Dash == <<"-">>

Ignored == [outcome |-> "ignored"]
Skipped == [outcome |-> "skipped"]
Raised == [outcome |-> "raised"]

\* a faulty IsNoData that only looks at the status field
IsNoData_status_only(srcaddr, dstaddr, windowstart, windowend, action, flowlogstatus) ==
    flowlogstatus = <<"N","O","D","A","T","A">>

\* lines 172-174: a NODATA record, told by dashes in critical fields
IsNoData(srcaddr, dstaddr, windowstart, windowend, action, flowlogstatus) ==
    \/ srcaddr = Dash \/ dstaddr = Dash
    \/ windowstart = Dash \/ windowend = Dash
    \/ action = Dash \/ flowlogstatus = <<"N","O","D","A","T","A">>

\* a faulty IntOrZero that reads every text that is no integer as 0
IntOrZero_any_text(f) == IF ParseInt(f).ok THEN ParseInt(f) ELSE [ok |-> TRUE, value |-> 0]

\* lines 180-183: int(f) if f != '-' else 0
IntOrZero(f) == IF f # Dash THEN ParseInt(f) ELSE [ok |-> TRUE, value |-> 0]

\* lines 148-193 for a log line: skipped, or the values to accumulate
ParseFields(actual_log_line) ==
    LET fields == Split(actual_log_line)
        srcaddr == fields[4]
        dstaddr == fields[5]
        srcport == fields[6]
        dstport == fields[7]
        protocol == fields[8]
        packets == fields[9]
        bytes_transferred == fields[10]
        windowstart == fields[11]
        windowend == fields[12]
        action == fields[13]
        flowlogstatus == IF Len(fields) > 13 THEN fields[14] ELSE <<"O","K">>
        srcport_int == IntOrZero(srcport)
        dstport_int == IntOrZero(dstport)
        packets_int == IntOrZero(packets)
        bytes_int == IntOrZero(bytes_transferred)
        windowstart_int == ParseInt(windowstart)
        windowend_int == ParseInt(windowend)
    IN  IF Len(fields) < 13 THEN Skipped
        ELSE IF IsNoData(srcaddr, dstaddr, windowstart, windowend, action, flowlogstatus)
        THEN Skipped
        ELSE IF ~(/\ srcport_int.ok /\ dstport_int.ok /\ packets_int.ok /\ bytes_int.ok
                  /\ windowstart_int.ok /\ windowend_int.ok)
        THEN Skipped
        ELSE [outcome |-> "accumulated",
              tuple_key |-> srcaddr \o <<":">> \o IntToText(srcport_int.value) \o <<"-",">">>
                            \o dstaddr \o <<":">> \o IntToText(dstport_int.value)
                            \o <<":">> \o protocol,
              sourceIp |-> srcaddr, destinationIp |-> dstaddr,
              sourcePort |-> srcport_int.value, destinationPort |-> dstport_int.value,
              protocol |-> protocol,
              bytes |-> bytes_int.value, packets |-> packets_int.value,
              windowstart |-> windowstart_int.value, windowend |-> windowend_int.value,
              action |-> action]

\* the body of the line loop up to the accumulation, lines 131-193
ParseLine(line) ==
    LET actual == ActualLogLine(line)
    IN  IF IsBlank(line) THEN Ignored
        ELSE IF ~actual.is_text THEN Raised
        ELSE IF StartsWith(actual.text, <<"v","e","r","s","i","o","n">>) \/ IsBlank(actual.text) THEN Ignored
        ELSE ParseFields(actual.text)

\* a faulty Accumulate that keeps the window of the latest line instead of
\* widening it
Accumulate_latest_window(summaries_, r) ==
    LET known == {k \in 1..Len(summaries_) : summaries_[k].key = r.tuple_key}
        fresh == [sourceIp |-> r.sourceIp, destinationIp |-> r.destinationIp,
                  sourcePort |-> r.sourcePort, destinationPort |-> r.destinationPort,
                  protocol |-> r.protocol, totalBytes |-> 0, totalPackets |-> 0,
                  connectionCount |-> 0, acceptedCount |-> 0, rejectedCount |-> 0,
                  firstSeen |-> r.windowstart, lastSeen |-> r.windowend]
        with_key == IF known = {} THEN Append(summaries_, [key |-> r.tuple_key, value |-> fresh])
                    ELSE summaries_
        i == CHOOSE k \in 1..Len(with_key) : with_key[k].key = r.tuple_key
        summary == with_key[i].value
    IN  [with_key EXCEPT ![i].value =
            [summary EXCEPT
                !.totalBytes = @ + r.bytes,
                !.totalPackets = @ + r.packets,
                !.connectionCount = @ + 1,
                !.firstSeen = r.windowstart,
                !.lastSeen = r.windowend,
                !.acceptedCount = IF r.action = <<"A","C","C","E","P","T">> THEN @ + 1 ELSE @,
                !.rejectedCount = IF r.action = <<"R","E","J","E","C","T">> THEN @ + 1 ELSE @]]

\* a faulty Accumulate that starts a new summary from the line's values and
\* then adds the line again
Accumulate_counts_first_twice(summaries_, r) ==
    LET known == {k \in 1..Len(summaries_) : summaries_[k].key = r.tuple_key}
        fresh == [sourceIp |-> r.sourceIp, destinationIp |-> r.destinationIp,
                  sourcePort |-> r.sourcePort, destinationPort |-> r.destinationPort,
                  protocol |-> r.protocol, totalBytes |-> r.bytes, totalPackets |-> r.packets,
                  connectionCount |-> 1, acceptedCount |-> 0, rejectedCount |-> 0,
                  firstSeen |-> r.windowstart, lastSeen |-> r.windowend]
        with_key == IF known = {} THEN Append(summaries_, [key |-> r.tuple_key, value |-> fresh])
                    ELSE summaries_
        i == CHOOSE k \in 1..Len(with_key) : with_key[k].key = r.tuple_key
        summary == with_key[i].value
    IN  [with_key EXCEPT ![i].value =
            [summary EXCEPT
                !.totalBytes = @ + r.bytes,
                !.totalPackets = @ + r.packets,
                !.connectionCount = @ + 1,
                !.firstSeen = Min(@, r.windowstart),
                !.lastSeen = Max(@, r.windowend),
                !.acceptedCount = IF r.action = <<"A","C","C","E","P","T">> THEN @ + 1 ELSE @,
                !.rejectedCount = IF r.action = <<"R","E","J","E","C","T">> THEN @ + 1 ELSE @]]

\* lines 196-224: the summaries dict, as the sequence of its (key, value)
\* entries in insertion order, after the values r of one line are added
Accumulate(summaries_, r) ==
    LET known == {k \in 1..Len(summaries_) : summaries_[k].key = r.tuple_key}
        fresh == [sourceIp |-> r.sourceIp, destinationIp |-> r.destinationIp,
                  sourcePort |-> r.sourcePort, destinationPort |-> r.destinationPort,
                  protocol |-> r.protocol, totalBytes |-> 0, totalPackets |-> 0,
                  connectionCount |-> 0, acceptedCount |-> 0, rejectedCount |-> 0,
                  firstSeen |-> r.windowstart, lastSeen |-> r.windowend]
        with_key == IF known = {} THEN Append(summaries_, [key |-> r.tuple_key, value |-> fresh])
                    ELSE summaries_
        i == CHOOSE k \in 1..Len(with_key) : with_key[k].key = r.tuple_key
        summary == with_key[i].value
    IN  [with_key EXCEPT ![i].value =
            [summary EXCEPT
                !.totalBytes = @ + r.bytes,
                !.totalPackets = @ + r.packets,
                !.connectionCount = @ + 1,
                !.firstSeen = Min(@, r.windowstart),
                !.lastSeen = Max(@, r.windowend),
                !.acceptedCount = IF r.action = <<"A","C","C","E","P","T">> THEN @ + 1 ELSE @,
                !.rejectedCount = IF r.action = <<"R","E","J","E","C","T">> THEN @ + 1 ELSE @]]

\* n in decimal, zero-padded to w digits
Padded(n, w) ==
    LET t == NatToText(n)
    IN  [k \in 1..(w - Len(t)) |-> "0"] \o t

\* datetime.fromtimestamp(t).isoformat() for whole seconds t, the local time
\* zone being UTC as it is in the Lambda runtime: "YYYY-MM-DDTHH:MM:SS"
IsoFormat(t) ==
    LET days == t \div 86400
        secs == t % 86400
        z == days + 719468
        era == z \div 146097
        doe == z - era * 146097
        yoe == (doe - doe \div 1460 + doe \div 36524 - doe \div 146096) \div 365
        doy == doe - (365 * yoe + yoe \div 4 - yoe \div 100)
        mp == (5 * doy + 2) \div 153
        day == doy - (153 * mp + 2) \div 5 + 1
        month == IF mp < 10 THEN mp + 3 ELSE mp - 9
        year == yoe + era * 400 + (IF month <= 2 THEN 1 ELSE 0)
    IN  Padded(year, 4) \o <<"-">> \o Padded(month, 2) \o <<"-">> \o Padded(day, 2)
        \o <<"T">> \o Padded(secs \div 3600, 2) \o <<":">> \o Padded((secs % 3600) \div 60, 2)
        \o <<":">> \o Padded(secs % 60, 2)

\* datetime.utcnow().isoformat() when the clock reads us microseconds: the
\* fraction is left out when it is zero
UtcNowIso(us) ==
    IsoFormat(us \div 1000000)
    \o (IF us % 1000000 = 0 THEN <<>> ELSE <<".">> \o Padded(us % 1000000, 6))

\* a faulty FinalizeSummary whose hash leaves the processing timestamp out
FinalizeSummary_hash_without_timestamp(summary, us) ==
    LET connection_key == summary.sourceIp \o <<":">> \o IntToText(summary.sourcePort) \o <<"-",">">>
                          \o summary.destinationIp \o <<":">> \o IntToText(summary.destinationPort)
                          \o <<":">> \o summary.protocol
        timestamp == UtcNowIso(us)
    IN  [sourceIp |-> summary.sourceIp, destinationIp |-> summary.destinationIp,
         sourcePort |-> summary.sourcePort, destinationPort |-> summary.destinationPort,
         protocol |-> summary.protocol,
         totalBytes |-> summary.totalBytes, totalPackets |-> summary.totalPackets,
         connectionCount |-> summary.connectionCount,
         acceptedCount |-> summary.acceptedCount, rejectedCount |-> summary.rejectedCount,
         firstSeen |-> IsoFormat(summary.firstSeen), lastSeen |-> IsoFormat(summary.lastSeen),
         timestamp |-> timestamp,
         id |-> connection_key,
         uuid |-> [uuid5 |-> connection_key \o <<":">>
                             \o IntToText(summary.totalBytes) \o <<":">>
                             \o IntToText(summary.totalPackets)],
         sequenceNumber |-> us]

\* lines 239-254 for one summary, the clock reading us at that moment.  The
\* uuid5 hash is kept as the text it is computed from.  The sequence number
\* is int(timestamp() * 1000000): for readings of the present era the
\* double-precision product gives back the microseconds of the reading
\* exactly, and the small readings used here stand for such readings (for a
\* reading within days of 1970 the product can fall one short).
FinalizeSummary(summary, us) ==
    LET connection_key == summary.sourceIp \o <<":">> \o IntToText(summary.sourcePort) \o <<"-",">">>
                          \o summary.destinationIp \o <<":">> \o IntToText(summary.destinationPort)
                          \o <<":">> \o summary.protocol
        timestamp == UtcNowIso(us)
    IN  [sourceIp |-> summary.sourceIp, destinationIp |-> summary.destinationIp,
         sourcePort |-> summary.sourcePort, destinationPort |-> summary.destinationPort,
         protocol |-> summary.protocol,
         totalBytes |-> summary.totalBytes, totalPackets |-> summary.totalPackets,
         connectionCount |-> summary.connectionCount,
         acceptedCount |-> summary.acceptedCount, rejectedCount |-> summary.rejectedCount,
         firstSeen |-> IsoFormat(summary.firstSeen), lastSeen |-> IsoFormat(summary.lastSeen),
         timestamp |-> timestamp,
         id |-> connection_key,
         uuid |-> [uuid5 |-> connection_key \o <<":">> \o timestamp \o <<":">>
                             \o IntToText(summary.totalBytes) \o <<":">>
                             \o IntToText(summary.totalPackets)],
         sequenceNumber |-> us]

(***************************************************************************)
(* The lines the aggregator is run on.                                     *)
(***************************************************************************)
L_accept == <<"2"," ","1","2","3","4","5","6","7","8","9","0","1","2"," ","e","n","i","-","1"," ","1","0",".","0",".","0",".","1"," ","1","0",".","0",".","0",".","2"," ","4","4","3"," ","8","0"," ","6"," ","1","0"," ","1","0","0","0"," ","1","0","0","0","0","0","0"," ","1","0","0","0","0","6","0"," ","A","C","C","E","P","T"," ","O","K">>
L_reject == <<"2"," ","1","2","3","4","5","6","7","8","9","0","1","2"," ","e","n","i","-","1"," ","1","0",".","0",".","0",".","1"," ","1","0",".","0",".","0",".","2"," ","4","4","3"," ","8","0"," ","6"," ","5"," ","1","0","0","0"," ","9","9","9","9","4","0"," ","1","0","0","0","0","3","0"," ","R","E","J","E","C","T"," ","O","K">>
L_other_action == <<"2"," ","1","2","3","4","5","6","7","8","9","0","1","2"," ","e","n","i","-","1"," ","1","0",".","0",".","0",".","1"," ","1","0",".","0",".","0",".","2"," ","4","4","3"," ","8","0"," ","6"," ","1"," ","4","0"," ","1","0","0","0","0","1","0"," ","1","0","0","0","1","2","0"," ","D","R","O","P">>
L_icmp == <<"2"," ","1","2","3","4","5","6","7","8","9","0","1","2"," ","e","n","i","-","1"," ","1","0",".","0",".","0",".","1"," ","1","0",".","0",".","0",".","3"," ","-"," ","-"," ","1"," ","-"," ","-"," ","1","0","0","0","0","0","0"," ","1","0","0","0","0","6","0"," ","A","C","C","E","P","T"," ","O","K">>
L_nodata == <<"2"," ","1","2","3","4","5","6","7","8","9","0","1","2"," ","e","n","i","-","1"," ","-"," ","-"," ","-"," ","-"," ","-"," ","-"," ","-"," ","1","0","0","0","0","0","0"," ","1","0","0","0","0","6","0"," ","-"," ","N","O","D","A","T","A">>
L_header == <<"v","e","r","s","i","o","n"," ","a","c","c","o","u","n","t","-","i","d"," ","i","n","t","e","r","f","a","c","e","-","i","d"," ","s","r","c","a","d","d","r"," ","d","s","t","a","d","d","r"," ","s","r","c","p","o","r","t"," ","d","s","t","p","o","r","t"," ","p","r","o","t","o","c","o","l"," ","p","a","c","k","e","t","s"," ","b","y","t","e","s"," ","s","t","a","r","t"," ","e","n","d"," ","a","c","t","i","o","n"," ","l","o","g","-","s","t","a","t","u","s">>
L_short == <<"2"," ","1","2","3","4","5","6","7","8","9","0","1","2"," ","e","n","i","-","1">>
L_bad_number == <<"2"," ","1","2","3","4","5","6","7","8","9","0","1","2"," ","e","n","i","-","1"," ","1","0",".","0",".","0",".","1"," ","1","0",".","0",".","0",".","2"," ","4","4","3"," ","8","0"," ","6"," ","1","0"," ","1","e","3"," ","1","0","0","0","0","0","0"," ","1","0","0","0","0","6","0"," ","A","C","C","E","P","T"," ","O","K">>
L_envelope == <<"{","\"","m","e","s","s","a","g","e","\"",":"," ","\"","2"," ","1","2","3","4","5","6","7","8","9","0","1","2"," ","e","n","i","-","1"," ","1","0",".","0",".","0",".","1"," ","1","0",".","0",".","0",".","2"," ","4","4","3"," ","8","0"," ","6"," ","1","0"," ","1","0","0","0"," ","1","0","0","0","0","0","0"," ","1","0","0","0","0","6","0"," ","A","C","C","E","P","T"," ","O","K","\"","}">>
L_null_envelope == <<"{","\"","m","e","s","s","a","g","e","\"",":"," ","n","u","l","l","}">>
L_no_srcaddr == <<"2"," ","1","2","3","4","5","6","7","8","9","0","1","2"," ","e","n","i","-","1"," ","-"," ","1","0",".","0",".","0",".","2"," ","4","4","3"," ","8","0"," ","6"," ","1","0"," ","1","0","0","0"," ","1","0","0","0","0","0","0"," ","1","0","0","0","0","6","0"," ","A","C","C","E","P","T"," ","O","K">>
L_no_dstaddr == <<"2"," ","1","2","3","4","5","6","7","8","9","0","1","2"," ","e","n","i","-","1"," ","1","0",".","0",".","0",".","1"," ","-"," ","4","4","3"," ","8","0"," ","6"," ","1","0"," ","1","0","0","0"," ","1","0","0","0","0","0","0"," ","1","0","0","0","0","6","0"," ","A","C","C","E","P","T"," ","O","K">>
L_no_start == <<"2"," ","1","2","3","4","5","6","7","8","9","0","1","2"," ","e","n","i","-","1"," ","1","0",".","0",".","0",".","1"," ","1","0",".","0",".","0",".","2"," ","4","4","3"," ","8","0"," ","6"," ","1","0"," ","1","0","0","0"," ","-"," ","1","0","0","0","0","6","0"," ","A","C","C","E","P","T"," ","O","K">>
L_no_end == <<"2"," ","1","2","3","4","5","6","7","8","9","0","1","2"," ","e","n","i","-","1"," ","1","0",".","0",".","0",".","1"," ","1","0",".","0",".","0",".","2"," ","4","4","3"," ","8","0"," ","6"," ","1","0"," ","1","0","0","0"," ","1","0","0","0","0","0","0"," ","-"," ","A","C","C","E","P","T"," ","O","K">>
L_no_action == <<"2"," ","1","2","3","4","5","6","7","8","9","0","1","2"," ","e","n","i","-","1"," ","1","0",".","0",".","0",".","1"," ","1","0",".","0",".","0",".","2"," ","4","4","3"," ","8","0"," ","6"," ","1","0"," ","1","0","0","0"," ","1","0","0","0","0","0","0"," ","1","0","0","0","0","6","0"," ","-"," ","O","K">>
L_status_nodata == <<"2"," ","1","2","3","4","5","6","7","8","9","0","1","2"," ","e","n","i","-","1"," ","1","0",".","0",".","0",".","1"," ","1","0",".","0",".","0",".","2"," ","4","4","3"," ","8","0"," ","6"," ","1","0"," ","1","0","0","0"," ","1","0","0","0","0","0","0"," ","1","0","0","0","0","6","0"," ","A","C","C","E","P","T"," ","N","O","D","A","T","A">>
L_dash_srcport == <<"2"," ","1","2","3","4","5","6","7","8","9","0","1","2"," ","e","n","i","-","1"," ","1","0",".","0",".","0",".","1"," ","1","0",".","0",".","0",".","2"," ","-"," ","8","0"," ","6"," ","1","0"," ","1","0","0","0"," ","1","0","0","0","0","0","0"," ","1","0","0","0","0","6","0"," ","A","C","C","E","P","T"," ","O","K">>
L_dash_packets == <<"2"," ","1","2","3","4","5","6","7","8","9","0","1","2"," ","e","n","i","-","1"," ","1","0",".","0",".","0",".","1"," ","1","0",".","0",".","0",".","2"," ","4","4","3"," ","8","0"," ","6"," ","-"," ","1","0","0","0"," ","1","0","0","0","0","0","0"," ","1","0","0","0","0","6","0"," ","A","C","C","E","P","T"," ","O","K">>
L_dash_bytes == <<"2"," ","1","2","3","4","5","6","7","8","9","0","1","2"," ","e","n","i","-","1"," ","1","0",".","0",".","0",".","1"," ","1","0",".","0",".","0",".","2"," ","4","4","3"," ","8","0"," ","6"," ","1","0"," ","-"," ","1","0","0","0","0","0","0"," ","1","0","0","0","0","6","0"," ","A","C","C","E","P","T"," ","O","K">>
L_bad_srcport == <<"2"," ","1","2","3","4","5","6","7","8","9","0","1","2"," ","e","n","i","-","1"," ","1","0",".","0",".","0",".","1"," ","1","0",".","0",".","0",".","2"," ","4","4","x"," ","8","0"," ","6"," ","1","0"," ","1","0","0","0"," ","1","0","0","0","0","0","0"," ","1","0","0","0","0","6","0"," ","A","C","C","E","P","T"," ","O","K">>
L_bad_dstport == <<"2"," ","1","2","3","4","5","6","7","8","9","0","1","2"," ","e","n","i","-","1"," ","1","0",".","0",".","0",".","1"," ","1","0",".","0",".","0",".","2"," ","4","4","3"," ","h","t","t","p"," ","6"," ","1","0"," ","1","0","0","0"," ","1","0","0","0","0","0","0"," ","1","0","0","0","0","6","0"," ","A","C","C","E","P","T"," ","O","K">>
L_bad_packets == <<"2"," ","1","2","3","4","5","6","7","8","9","0","1","2"," ","e","n","i","-","1"," ","1","0",".","0",".","0",".","1"," ","1","0",".","0",".","0",".","2"," ","4","4","3"," ","8","0"," ","6"," ","t","e","n"," ","1","0","0","0"," ","1","0","0","0","0","0","0"," ","1","0","0","0","0","6","0"," ","A","C","C","E","P","T"," ","O","K">>
L_bad_start == <<"2"," ","1","2","3","4","5","6","7","8","9","0","1","2"," ","e","n","i","-","1"," ","1","0",".","0",".","0",".","1"," ","1","0",".","0",".","0",".","2"," ","4","4","3"," ","8","0"," ","6"," ","1","0"," ","1","0","0","0"," ","1","0","0","0","0","0","0",".","5"," ","1","0","0","0","0","6","0"," ","A","C","C","E","P","T"," ","O","K">>
L_bad_end == <<"2"," ","1","2","3","4","5","6","7","8","9","0","1","2"," ","e","n","i","-","1"," ","1","0",".","0",".","0",".","1"," ","1","0",".","0",".","0",".","2"," ","4","4","3"," ","8","0"," ","6"," ","1","0"," ","1","0","0","0"," ","1","0","0","0","0","0","0"," ","s","o","o","n"," ","A","C","C","E","P","T"," ","O","K">>
L_accept_rejected == <<"2"," ","1","2","3","4","5","6","7","8","9","0","1","2"," ","e","n","i","-","1"," ","1","0",".","0",".","0",".","1"," ","1","0",".","0",".","0",".","2"," ","4","4","3"," ","8","0"," ","6"," ","1","0"," ","1","0","0","0"," ","1","0","0","0","0","0","0"," ","1","0","0","0","0","6","0"," ","R","E","J","E","C","T"," ","O","K">>
L_accept_later == <<"2"," ","1","2","3","4","5","6","7","8","9","0","1","2"," ","e","n","i","-","1"," ","1","0",".","0",".","0",".","1"," ","1","0",".","0",".","0",".","2"," ","4","4","3"," ","8","0"," ","6"," ","1","0"," ","1","0","0","0"," ","1","0","0","0","3","0","0"," ","1","0","0","0","3","6","0"," ","A","C","C","E","P","T"," ","O","K">>
L_accept_half == <<"2"," ","1","2","3","4","5","6","7","8","9","0","1","2"," ","e","n","i","-","1"," ","1","0",".","0",".","0",".","1"," ","1","0",".","0",".","0",".","2"," ","4","4","3"," ","8","0"," ","6"," ","5"," ","5","0","0"," ","1","0","0","0","0","0","0"," ","1","0","0","0","0","6","0"," ","A","C","C","E","P","T"," ","O","K">>

AggLines == {L_accept, L_reject, L_other_action, L_icmp, L_nodata, L_header, L_short,
             L_bad_number, L_envelope, L_null_envelope, <<>>}
PermLines == {L_accept, L_reject, L_other_action, L_icmp, L_envelope}
SkipLines == {L_accept, L_reject, L_short, L_nodata, L_no_srcaddr, L_no_dstaddr, L_no_start,
              L_no_end, L_no_action, L_status_nodata}
PairLines == {L_accept, L_accept_rejected, L_accept_later, L_accept_half, L_icmp}
NumLines == {L_accept, L_icmp, L_dash_srcport, L_dash_packets, L_dash_bytes, L_bad_srcport,
             L_bad_dstport, L_bad_packets, L_bad_number, L_bad_start, L_bad_end}

\* ParseLine of each of these lines, computed once
ParsedLines == [l \in AggLines \cup PermLines \cup SkipLines \cup NumLines \cup PairLines |-> ParseLine(l)]

LineValues(line) == IF line \in DOMAIN ParsedLines THEN ParsedLines[line] ELSE ParseLine(line)

MaxLines == 3
MaxPermLines == 3
MaxSkipLines == 3
MaxNumLines == 2
MaxPairLines == 2

\* the sequences of at most n lines from pool
FilesOf(pool, n) == UNION {[1..k -> pool] : k \in 0..n}

\* the file being processed
File == files[fileIdx]

\* one pass of the line loop, lines 130-231
ProcessLine ==
    /\ apc = "lines"
    /\ linePos < Len(File)
    /\ linePos' = linePos + 1
    /\ LET r == LineValues(File[linePos + 1])
       IN  CASE r.outcome = "ignored" ->
                  UNCHANGED <<summaries, processed_lines, skipped_lines, apc>>
             [] r.outcome = "skipped" ->
                  /\ skipped_lines' = skipped_lines + 1
                  /\ UNCHANGED <<summaries, processed_lines, apc>>
             [] r.outcome = "accumulated" ->
                  /\ summaries' = Accumulate(summaries, r)
                  /\ processed_lines' = processed_lines + 1
                  /\ UNCHANGED <<skipped_lines, apc>>
             [] r.outcome = "raised" ->
                  /\ apc' = "raised"
                  /\ UNCHANGED <<summaries, processed_lines, skipped_lines>>
    /\ UNCHANGED <<files, fileIdx, returned, printed, clock>>
    /\ UNCHANGED cvars
    /\ UNCHANGED hvars
    /\ UNCHANGED evars
    /\ UNCHANGED xvars

\* after the last line: the counts are printed and every summary is
\* finalized, lines 233-256.  The clock is read once per summary; advanced[k]
\* tells whether it has moved on by a microsecond at the k-th reading.
Finalize ==
    /\ apc = "lines"
    /\ linePos = Len(File)
    /\ printed' = Append(printed, [processed |-> processed_lines, skipped |-> skipped_lines])
    /\ \E advanced \in [1..Len(summaries) -> BOOLEAN] :
          LET reading(k) == clock + Cardinality({j \in 1..k : advanced[j]})
          IN  /\ returned' = Append(returned,
                     [k \in 1..Len(summaries) |-> FinalizeSummary(summaries[k].value, reading(k))])
              /\ clock' = reading(Len(summaries))
    /\ apc' = "returned"
    /\ UNCHANGED <<files, fileIdx, linePos, summaries, processed_lines, skipped_lines>>
    /\ UNCHANGED cvars
    /\ UNCHANGED hvars
    /\ UNCHANGED evars
    /\ UNCHANGED xvars

\* process_vpc_flow_log_file is called on the next file
NextFile ==
    /\ apc = "returned"
    /\ fileIdx < Len(files)
    /\ fileIdx' = fileIdx + 1
    /\ linePos' = 0
    /\ summaries' = <<>>
    /\ processed_lines' = 0
    /\ skipped_lines' = 0
    /\ apc' = "lines"
    /\ UNCHANGED <<files, returned, printed, clock>>
    /\ UNCHANGED cvars
    /\ UNCHANGED hvars
    /\ UNCHANGED evars
    /\ UNCHANGED xvars

ClassifierIdle ==
    /\ eni = SampleEni(1, 1, 1, 1, 1)
    /\ cloud = Cloud("empty", "empty", "none")
    /\ result = NoDescriptor
    /\ lookups = <<>>
    /\ call = NoCall
    /\ ret = NoReturn
    /\ cpc = "idle"

\* process_vpc_flow_log_file entered on the first file
AggregatorStarts ==
    /\ fileIdx = 1
    /\ linePos = 0
    /\ summaries = <<>>
    /\ processed_lines = 0
    /\ skipped_lines = 0
    /\ returned = <<>>
    /\ printed = <<>>
    /\ clock \in {999999, 1000000}
    /\ apc = "lines"

\* one file of any lines
InitAgg ==
    /\ files \in {<<f>> : f \in FilesOf(AggLines, MaxLines)}
    /\ AggregatorStarts
    /\ ClassifierIdle
    /\ HandlerIdle
    /\ EventsIdle
    /\ SynthesisIdle
    /\ PassIdle
    /\ WebIdle

NextAgg == ProcessLine \/ Finalize

SpecAgg == InitAgg /\ [][NextAgg]_vars

\* the orders the lines of f can come in
Reorderings(f) == {[k \in 1..Len(f) |-> f[p[k]]] : p \in Permutations(1..Len(f))}

\* a file of valid lines, then the same lines in another order
InitPerm ==
    /\ \E f \in FilesOf(PermLines, MaxPermLines) : files \in {<<f, g>> : g \in Reorderings(f)}
    /\ AggregatorStarts
    /\ ClassifierIdle
    /\ HandlerIdle
    /\ EventsIdle
    /\ SynthesisIdle
    /\ PassIdle
    /\ WebIdle

NextPerm == ProcessLine \/ Finalize \/ NextFile

SpecPerm == InitPerm /\ [][NextPerm]_vars

\* one file with NODATA records among its lines
InitSkip ==
    /\ files \in {<<f>> : f \in FilesOf(SkipLines, MaxSkipLines)}
    /\ AggregatorStarts
    /\ ClassifierIdle
    /\ HandlerIdle
    /\ EventsIdle
    /\ SynthesisIdle
    /\ PassIdle
    /\ WebIdle

SpecSkip == InitSkip /\ [][NextAgg]_vars

\* one file with lines whose numeric fields are dashes or no integers
InitNum ==
    /\ files \in {<<f>> : f \in FilesOf(NumLines, MaxNumLines)}
    /\ AggregatorStarts
    /\ ClassifierIdle
    /\ HandlerIdle
    /\ EventsIdle
    /\ SynthesisIdle
    /\ PassIdle
    /\ WebIdle

SpecNum == InitNum /\ [][NextAgg]_vars

\* two files of valid lines, one processed after the other
InitPair ==
    /\ files \in {<<f, g>> : f \in FilesOf(PairLines, MaxPairLines), g \in FilesOf(PairLines, MaxPairLines)}
    /\ AggregatorStarts
    /\ ClassifierIdle
    /\ HandlerIdle
    /\ EventsIdle
    /\ SynthesisIdle
    /\ PassIdle
    /\ WebIdle

SpecPair == InitPair /\ [][NextPerm]_vars

(***************************************************************************)
(* Properties of the line loop (SpecAgg, SpecPerm, SpecSkip).              *)
(***************************************************************************)
\* the line loop as a function of the lines: the summaries dict and the
\* counters after the last line, or after the line that raised
RECURSIVE RunFrom(_, _, _)
RunFrom(lines, k, acc) ==
    IF k > Len(lines) \/ acc.raised THEN acc
    ELSE CHOOSE after \in
            {RunFrom(lines, k + 1,
                CASE r.outcome = "ignored" -> acc
                  [] r.outcome = "skipped" -> [acc EXCEPT !.skipped = @ + 1]
                  [] r.outcome = "accumulated" ->
                        [acc EXCEPT !.summaries = Accumulate(@, r), !.processed = @ + 1]
                  [] r.outcome = "raised" -> [acc EXCEPT !.raised = TRUE]) :
             r \in {LineValues(lines[k])}} : TRUE

RunLines(lines) ==
    RunFrom(lines, 1, [summaries |-> <<>>, processed |-> 0, skipped |-> 0, raised |-> FALSE])

\* the lines consumed so far
Consumed == SubSeq(File, 1, linePos)

\* the consumed lines that were aggregated under tuple key key
LinesOf(key) ==
    {k \in 1..linePos :
        /\ LineValues(File[k]).outcome = "accumulated"
        /\ LineValues(File[k]).tuple_key = key}

RECURSIVE SeqSum(_)
SeqSum(s) == IF s = <<>> THEN 0 ELSE s[1] + SeqSum(Tail(s))

\* the sum of bytes, or of packets, over the consumed lines in ks
BytesOver(ks) == SeqSum([k \in 1..linePos |-> IF k \in ks THEN LineValues(File[k]).bytes ELSE 0])
PacketsOver(ks) == SeqSum([k \in 1..linePos |-> IF k \in ks THEN LineValues(File[k]).packets ELSE 0])

\* summary value v is what the lines ks add up to
SumsUp(v, ks) ==
    /\ v.totalBytes = BytesOver(ks)
    /\ v.totalPackets = PacketsOver(ks)
    /\ v.connectionCount = Cardinality(ks)
    /\ v.acceptedCount = Cardinality({k \in ks : LineValues(File[k]).action = <<"A","C","C","E","P","T">>})
    /\ v.rejectedCount = Cardinality({k \in ks : LineValues(File[k]).action = <<"R","E","J","E","C","T">>})
    /\ \E k \in ks : v.firstSeen = LineValues(File[k]).windowstart
    /\ \A k \in ks : v.firstSeen <= LineValues(File[k]).windowstart
    /\ \E k \in ks : v.lastSeen = LineValues(File[k]).windowend
    /\ \A k \in ks : v.lastSeen >= LineValues(File[k]).windowend

\* C8: at every point of the line loop, each tuple key met so far has one
\* summary, with totalBytes and totalPackets the sums of bytes and packets,
\* connectionCount the number of aggregated lines of the key, acceptedCount
\* and rejectedCount the numbers of those with action ACCEPT and REJECT,
\* firstSeen the least window-start and lastSeen the greatest window-end;
\* lines with any other action count towards connectionCount, bytes and
\* packets only.
C8_SummariesAddUp ==
    apc \in {"lines", "returned", "raised"} =>
        /\ \A i, j \in 1..Len(summaries) : summaries[i].key = summaries[j].key => i = j
        /\ {summaries[i].key : i \in 1..Len(summaries)}
              = {LineValues(File[k]).tuple_key :
                    k \in {k2 \in 1..linePos : LineValues(File[k2]).outcome = "accumulated"}}
        /\ \A i \in 1..Len(summaries) : SumsUp(summaries[i].value, LinesOf(summaries[i].key))

\* three lines of one key, an ACCEPT, a REJECT and a DROP, whose windows are
\* not nested in the order they came
C8_Witness ==
    /\ apc = "returned"
    /\ File = <<L_accept, L_reject, L_other_action>>
    /\ Len(summaries) = 1
    /\ summaries[1].value.totalBytes = 2040
    /\ summaries[1].value.totalPackets = 16
    /\ summaries[1].value.connectionCount = 3
    /\ summaries[1].value.acceptedCount = 1
    /\ summaries[1].value.rejectedCount = 1
    /\ summaries[1].value.firstSeen = 999940
    /\ summaries[1].value.lastSeen = 1000120

\* what of a finalized summary comes from the accumulation
Accumulated(s) ==
    [id |-> s.id, totalBytes |-> s.totalBytes, totalPackets |-> s.totalPackets,
     connectionCount |-> s.connectionCount, acceptedCount |-> s.acceptedCount,
     rejectedCount |-> s.rejectedCount, firstSeen |-> s.firstSeen, lastSeen |-> s.lastSeen]

\* C9: the same valid lines fed in any other order give the same set of
\* keys and, for every key, the same totalBytes, totalPackets,
\* connectionCount, acceptedCount, rejectedCount, firstSeen and lastSeen.
C9_OrderIndependent ==
    Len(returned) = 2 =>
        /\ Len(returned[1]) = Len(returned[2])
        /\ {Accumulated(returned[1][k]) : k \in 1..Len(returned[1])}
              = {Accumulated(returned[2][k]) : k \in 1..Len(returned[2])}

\* two keys, met in opposite orders, the lines of one key reordered as well
C9_Witness ==
    /\ Len(returned) = 2
    /\ files[1] = <<L_icmp, L_reject, L_other_action>>
    /\ files[2] = <<L_other_action, L_reject, L_icmp>>
    /\ Len(returned[1]) = 2
    /\ returned[1][1].id # returned[2][1].id
    /\ returned[1][1].firstSeen = returned[2][2].firstSeen

\* a line with a dash for one of srcaddr, dstaddr, window-start, window-end
\* and action, or with status NODATA, told from its fields
IsNoDataLine(line) ==
    LET fields == Split(line)
    IN  /\ Len(fields) >= 13
        /\ \/ \E n \in {4, 5, 11, 12, 13} : fields[n] = Dash
           \/ Len(fields) > 13 /\ fields[14] = <<"N","O","D","A","T","A">>

NoDataLines == {l \in SkipLines : IsNoDataLine(l)}

\* the consumed lines without the NODATA records
Remaining == SelectSeq(Consumed, LAMBDA l : l \notin NoDataLines)

\* C10: at every point of the line loop the summaries are exactly those of
\* the lines that are no NODATA records (no key and no counter comes from a
\* NODATA record), and every NODATA record has added exactly one to the skip
\* count.
C10_NoDataSkipped ==
    apc \in {"lines", "returned"} =>
        /\ summaries = RunLines(Remaining).summaries
        /\ processed_lines = RunLines(Remaining).processed
        /\ skipped_lines = RunLines(Remaining).skipped + (Len(Consumed) - Len(Remaining))

\* a record with only the action missing and one with only the status
\* NODATA around a valid line
C10_Witness ==
    /\ apc = "returned"
    /\ File = <<L_no_action, L_accept, L_status_nodata>>
    /\ Len(summaries) = 1
    /\ summaries[1].value.connectionCount = 1
    /\ skipped_lines = 2
    /\ processed_lines = 1

(***************************************************************************)
(* Failure policy of the line loop (SpecAgg).                              *)
(***************************************************************************)
\* the lines of the files that cannot be used: too few fields, a numeric
\* field that is no integer, an envelope whose message is no text
MalformedLines == {L_short, L_bad_number, L_null_envelope}

\* the consumed lines without the malformed ones
WellFormed == SelectSeq(Consumed, LAMBDA l : l \notin MalformedLines)

\* C11: no line aborts the processing of a file: the line loop never ends in
\* an exception, every malformed line (too few fields, a non-integer numeric
\* field, an envelope whose message is null) adds one to the skip count, and
\* the summaries are those of the other lines, the ones after a malformed
\* line included.
C11_NoLineAborts ==
    /\ apc # "raised"
    /\ apc \in {"lines", "returned"} =>
          /\ summaries = RunLines(WellFormed).summaries
          /\ processed_lines = RunLines(WellFormed).processed
          /\ skipped_lines = RunLines(WellFormed).skipped + (Len(Consumed) - Len(WellFormed))

(***************************************************************************)
(* Numeric fields (SpecNum).  The fields are read off the line: srcport is *)
(* field 6, dstport 7, packets 9, bytes 10, window-start 11, window-end 12.*)
(***************************************************************************)
\* field n of the line is no integer, dashes in the fields of NoParse apart
FailsParsing(line, NoParse) ==
    LET fields == Split(line)
    IN  /\ Len(fields) >= 13
        /\ \E n \in {6, 7, 9, 10, 11, 12} :
              /\ ~ParseInt(fields[n]).ok
              /\ ~(n \in NoParse /\ fields[n] = Dash)

\* the consumed lines without those that fail parsing
Parsing(NoParse) == SelectSeq(Consumed, LAMBDA l : ~FailsParsing(l, NoParse))

\* the summaries and counts are those of the lines that do not fail parsing,
\* and every line that fails has added one to the skip count
FailuresDiscarded(NoParse) ==
    /\ summaries = RunLines(Parsing(NoParse)).summaries
    /\ processed_lines = RunLines(Parsing(NoParse)).processed
    /\ skipped_lines = RunLines(Parsing(NoParse)).skipped + (Len(Consumed) - Len(Parsing(NoParse)))

\* a dash in a field of NoParse of the lines of a summary is read as 0
DashIsZero(NoParse) ==
    \A i \in 1..Len(summaries) :
        LET ks == LinesOf(summaries[i].key)
            dashed(n) == n \in NoParse /\ \A k \in ks : Split(File[k])[n] = Dash
        IN  /\ dashed(6) => summaries[i].value.sourcePort = 0
            /\ dashed(7) => summaries[i].value.destinationPort = 0
            /\ dashed(9) => summaries[i].value.totalPackets = 0
            /\ dashed(10) => summaries[i].value.totalBytes = 0

\* C12 as stated: a line in which a port, the packet count, the byte count,
\* window-start or window-end fails integer parsing is counted as skipped
\* and contributes to no summary, a port equal to "-" alone excepted, which
\* is read as 0.
C12_OnlyPortDashIsZero ==
    apc \in {"lines", "returned"} => FailuresDiscarded({6, 7}) /\ DashIsZero({6, 7})

\* C12 amended: a line in which a port, the packet count, the byte count,
\* window-start or window-end fails integer parsing is counted as skipped
\* and contributes to no summary, except that a port, a packet count or a
\* byte count equal to "-" is read as 0.
C12_DashCountsAreZero ==
    apc \in {"lines", "returned"} => FailuresDiscarded({6, 7, 9, 10}) /\ DashIsZero({6, 7, 9, 10})

\* a line with a dash for the packet count is aggregated with 0 packets, a
\* line whose packet count is a word is skipped
C12_Witness ==
    /\ apc = "returned"
    /\ File = <<L_dash_packets, L_bad_packets>>
    /\ skipped_lines = 1
    /\ processed_lines = 1
    /\ Len(summaries) = 1
    /\ summaries[1].value.totalPackets = 0
    /\ summaries[1].value.totalBytes = 1000

(***************************************************************************)
(* Two runs over the same content (SpecPerm with both files alike).        *)
(***************************************************************************)
\* the tuple keys of the lines of file f that are aggregated
KeysOf(f) ==
    {LineValues(f[k]).tuple_key : k \in {k2 \in 1..Len(f) : LineValues(f[k2]).outcome = "accumulated"}}

\* the ids of the summaries one run returned
IdsOf(run) == {run[k].id : k \in 1..Len(run)}

\* C13: two runs over the same file content return the same set of summary
\* ids, each id the tuple key of its summary and no id twice in a run, and
\* for every id whose two processing timestamps differ the uuid and the
\* sequence number differ between the runs.
C13_SameIdsNewBatch ==
    Len(returned) = 2 /\ files[1] = files[2] =>
        /\ IdsOf(returned[1]) = IdsOf(returned[2])
        /\ \A r \in 1..2 :
              /\ IdsOf(returned[r]) = KeysOf(files[r])
              /\ \A i, j \in 1..Len(returned[r]) : returned[r][i].id = returned[r][j].id => i = j
        /\ \A i \in 1..Len(returned[1]) : \A j \in 1..Len(returned[2]) :
              /\ returned[1][i].id = returned[2][j].id
              /\ returned[1][i].timestamp # returned[2][j].timestamp
              => /\ returned[1][i].uuid # returned[2][j].uuid
                 /\ returned[1][i].sequenceNumber # returned[2][j].sequenceNumber

\* a file of two keys run twice, the second run a microsecond later
C13_Witness ==
    /\ Len(returned) = 2
    /\ files[1] = <<L_accept, L_icmp, L_reject>>
    /\ files[2] = files[1]
    /\ Len(returned[1]) = 2
    /\ returned[1][1].id = returned[2][1].id
    /\ returned[1][1].timestamp # returned[2][1].timestamp
    /\ returned[1][1].uuid # returned[2][1].uuid
    /\ returned[2][1].sequenceNumber = returned[1][1].sequenceNumber + 1

(***************************************************************************)
(* The uuid as a function of the content (SpecPair).                       *)
(***************************************************************************)
\* the finalized summaries of all runs so far
AllFinalized == UNION {{returned[r][k] : k \in 1..Len(returned[r])} : r \in 1..Len(returned)}

\* C14 as stated: two finalized summaries with the same tuple key and the
\* same processing timestamp that have equal uuids have equal totalBytes,
\* totalPackets, connectionCount, acceptedCount, rejectedCount, firstSeen
\* and lastSeen (equal uuids meaning equal hash inputs).
C14_UuidTellsContent ==
    \A s \in AllFinalized : \A t \in AllFinalized :
        s.id = t.id /\ s.timestamp = t.timestamp /\ s.uuid = t.uuid
        => Accumulated(s) = Accumulated(t)

(***************************************************************************)
(* The flow-log handler (src/terraform/lambda.py, handler): for each       *)
(* record of the S3 event the file is processed, each of its summaries is  *)
(* handed to publish_to_appsync, and the file is deleted.  In this part    *)
(* process_vpc_flow_log_file is one step: the object is read, the line     *)
(* loop runs and the summaries are finalized.                              *)
(***************************************************************************)
MaxRecords == 2
MaxInvocations == 2

\* the contents an object of the event can have
HandlerFiles == {<<>>, <<L_accept>>, <<L_accept, L_icmp>>, <<L_null_envelope>>}

\* what get_object and gzip.decompress can do with an object
GetOutcomes == {"ok", "client_error", "bad_gzip"}

\* what get_parameter can answer
SsmAnswers == {"value", "client_error"}

\* what the POST to AppSync can end in: status 200, another status, an exception
PublishAnswers == {"200", "403", "timeout"}

ApiKey == Some(<<"d","a","2","-","k","e","y">>)
EmptyKey == Some(<<>>)

\* a faulty get_appsync_api_key that asks again while the cached key is empty
GetAppsyncApiKey_retries_empty(cached, ssm) ==
    IF cached = None \/ cached = EmptyKey
    THEN [key |-> IF ssm = "value" THEN ApiKey ELSE EmptyKey, fetched |-> TRUE]
    ELSE [key |-> cached, fetched |-> FALSE]

\* lines 27-43: the key now cached, and whether get_parameter was called
GetAppsyncApiKey(cached, ssm) ==
    IF cached = None
    THEN [key |-> IF ssm = "value" THEN ApiKey ELSE EmptyKey, fetched |-> TRUE]
    ELSE [key |-> cached, fetched |-> FALSE]

\* lines 260-327: the key is taken on the way to the request (line 309);
\* status 200 gives True, any other status and any exception give False
PublishToAppsync(summary, cached, ssm, answer) ==
    [uuid |-> summary.uuid,
     key |-> GetAppsyncApiKey(cached, ssm).key,
     fetched |-> GetAppsyncApiKey(cached, ssm).fetched,
     success |-> answer = "200"]

\* a faulty ReadObject that takes the bytes of a broken archive as the text
ReadObject_keeps_broken_archive(object, lines) ==
    IF object = "client_error" THEN [raised |-> TRUE, lines |-> <<>>]
    ELSE [raised |-> FALSE, lines |-> lines]

\* lines 117-123: get_object, then gzip.decompress and decode; either can raise
ReadObject(object, lines) ==
    IF object = "ok" THEN [raised |-> FALSE, lines |-> lines]
    ELSE [raised |-> TRUE, lines |-> <<>>]

\* a faulty LoopDone that leaves the publish loop after the first summary
LoopDone_after_first(k, list) == k >= 1 \/ k >= Len(list)

\* lines 86-91: the for loop over the summaries ends when the list is used up
LoopDone(k, list) == k >= Len(list)

\* a faulty Counted that forgets the failures
Counted_failures_dropped(counts, success) ==
    IF success THEN [counts EXCEPT !.published = @ + 1] ELSE counts

\* lines 87-91: one of the two counters goes up
Counted(counts, success) ==
    IF success THEN [counts EXCEPT !.published = @ + 1]
    ELSE [counts EXCEPT !.failed = @ + 1]

\* the summaries of the file whose publishing is under way
CurrentSummaries == returned[fileIdx]

\* line 82: process_vpc_flow_log_file on the record's object, and line 83.
\* An exception of the read or of the line loop leaves handler through
\* lines 109-111.  The clock is a microsecond further at each summary's
\* reading (SpecAgg and SpecPerm cover the readings that stand still).
ProcessFile ==
    /\ hpc = "record"
    /\ fileIdx <= Len(files)
    /\ \E read \in {ReadObject(objects[fileIdx], File)} :
       \E run \in {RunLines(read.lines)} :
          IF read.raised \/ run.raised
          THEN /\ hpc' = "raised"
               /\ handler_result' = <<[raised |-> IF read.raised THEN objects[fileIdx]
                                                   ELSE "AttributeError"]>>
               /\ UNCHANGED <<returned, printed, clock, total_summaries>>
          ELSE /\ printed' = Append(printed, [processed |-> run.processed, skipped |-> run.skipped])
               /\ returned' = Append(returned,
                      [k \in 1..Len(run.summaries) |->
                           FinalizeSummary(run.summaries[k].value, clock + k)])
               /\ clock' = clock + Len(run.summaries)
               /\ total_summaries' = total_summaries + Len(run.summaries)
               /\ hpc' = "publishing"
               /\ UNCHANGED handler_result
    /\ pubIdx' = 0
    /\ UNCHANGED <<files, fileIdx, linePos, summaries, processed_lines, skipped_lines, apc>>
    /\ UNCHANGED <<objects, attempts, deletes, published_count, failed_count,
                   APPSYNC_API_KEY, ssm_calls, invocation>>
    /\ UNCHANGED cvars
    /\ UNCHANGED evars
    /\ UNCHANGED xvars

\* lines 86-91: the next summary of the file goes to publish_to_appsync
Publish ==
    /\ hpc = "publishing"
    /\ ~LoopDone(pubIdx, CurrentSummaries)
    /\ \E ssm \in SsmAnswers, answer \in PublishAnswers :
       \E sent \in {PublishToAppsync(CurrentSummaries[pubIdx + 1], APPSYNC_API_KEY, ssm, answer)} :
       \E counts \in {Counted([published |-> published_count, failed |-> failed_count],
                              sent.success)} :
          /\ APPSYNC_API_KEY' = sent.key
          /\ ssm_calls' = ssm_calls + (IF sent.fetched THEN 1 ELSE 0)
          /\ attempts' = Append(attempts, [file |-> fileIdx, summary |-> pubIdx + 1,
                                           uuid |-> sent.uuid, key |-> sent.key,
                                           answer |-> answer, success |-> sent.success])
          /\ published_count' = counts.published
          /\ failed_count' = counts.failed
    /\ pubIdx' = pubIdx + 1
    /\ UNCHANGED avars
    /\ UNCHANGED <<objects, deletes, total_summaries, handler_result, invocation, hpc>>
    /\ UNCHANGED cvars
    /\ UNCHANGED evars
    /\ UNCHANGED xvars

\* line 94: delete_s3_file, which keeps a failure of delete_object to itself
\* (lines 329-335); the loop goes on to the next record
DeleteFile ==
    /\ hpc = "publishing"
    /\ LoopDone(pubIdx, CurrentSummaries)
    /\ \E deleted \in BOOLEAN :
          deletes' = Append(deletes, [file |-> fileIdx, deleted |-> deleted])
    /\ fileIdx' = fileIdx + 1
    /\ pubIdx' = 0
    /\ hpc' = "record"
    /\ UNCHANGED <<files, linePos, summaries, processed_lines, skipped_lines, returned,
                   printed, clock, apc>>
    /\ UNCHANGED <<objects, attempts, total_summaries, published_count, failed_count,
                   handler_result, APPSYNC_API_KEY, ssm_calls, invocation>>
    /\ UNCHANGED cvars
    /\ UNCHANGED evars
    /\ UNCHANGED xvars

\* lines 96-107: after the last record the response with the counters
Return ==
    /\ hpc = "record"
    /\ fileIdx > Len(files)
    /\ handler_result' = <<[statusCode |-> 200, files |-> Len(files),
                            summaries_processed |-> total_summaries,
                            published |-> published_count, failed |-> failed_count]>>
    /\ hpc' = "returned"
    /\ UNCHANGED avars
    /\ UNCHANGED <<objects, pubIdx, attempts, deletes, total_summaries, published_count,
                   failed_count, APPSYNC_API_KEY, ssm_calls, invocation>>
    /\ UNCHANGED cvars
    /\ UNCHANGED evars
    /\ UNCHANGED xvars

\* the objects an event can name: one that reads well, with its lines, or
\* one whose read fails
HandlerObjects == {[get |-> "ok", lines |-> f] : f \in HandlerFiles}
                  \cup {[get |-> g, lines |-> <<>>] : g \in GetOutcomes \ {"ok"}}

\* the events handler can be called with: n records
EventsOf(n) == {[files_ |-> [k \in 1..n |-> e[k].lines], objects_ |-> [k \in 1..n |-> e[k].get]] :
                   e \in [1..n -> HandlerObjects]}

\* the reading of the clock when the process is invoked for the i-th time
InvocationStart(i) == 1000000 + 100 * (i - 1)

\* handler is called on an event: the locals start from zero (lines 67-69),
\* the module global APPSYNC_API_KEY is as the process left it
Invoke ==
    /\ hpc = "idle"
    /\ invocation < MaxInvocations
    /\ \E n \in 0..MaxRecords : \E event \in EventsOf(n) :
          /\ files' = event.files_
          /\ objects' = event.objects_
    /\ fileIdx' = 1
    /\ clock' = InvocationStart(invocation + 1)
    /\ invocation' = invocation + 1
    /\ hpc' = "record"
    /\ UNCHANGED <<linePos, summaries, processed_lines, skipped_lines, returned, printed, apc>>
    /\ UNCHANGED <<pubIdx, attempts, deletes, total_summaries, published_count, failed_count,
                   handler_result, APPSYNC_API_KEY, ssm_calls>>
    /\ UNCHANGED cvars
    /\ UNCHANGED evars
    /\ UNCHANGED xvars

\* the invocation is over: its locals and what it gave its caller are gone,
\* the process waits, and time passes until its next event
Rest ==
    /\ hpc \in {"returned", "raised"}
    /\ files' = <<>>
    /\ objects' = <<>>
    /\ fileIdx' = 0
    /\ returned' = <<>>
    /\ printed' = <<>>
    /\ pubIdx' = 0
    /\ attempts' = <<>>
    /\ deletes' = <<>>
    /\ total_summaries' = 0
    /\ published_count' = 0
    /\ failed_count' = 0
    /\ handler_result' = <<>>
    /\ hpc' = "idle"
    /\ clock' = InvocationStart(invocation + 1)
    /\ UNCHANGED <<linePos, summaries, processed_lines, skipped_lines, apc>>
    /\ UNCHANGED <<APPSYNC_API_KEY, ssm_calls, invocation>>
    /\ UNCHANGED cvars
    /\ UNCHANGED evars
    /\ UNCHANGED xvars

\* a fresh process: the module is loaded, no event has come
InitHandler ==
    /\ AggregatorIdle
    /\ HandlerIdle
    /\ ClassifierIdle
    /\ EventsIdle
    /\ SynthesisIdle
    /\ PassIdle
    /\ WebIdle

NextHandler == Invoke \/ ProcessFile \/ Publish \/ DeleteFile \/ Return \/ Rest

SpecHandler == InitHandler /\ [][NextHandler]_vars

(***************************************************************************)
(* Properties of the flow-log handler (SpecHandler).                       *)
(***************************************************************************)
\* the attempts made for summary k of file f
AttemptsFor(f, k) == {a \in 1..Len(attempts) : attempts[a].file = f /\ attempts[a].summary = k}

\* the files for which delete_s3_file has been called
Deleted == {deletes[d].file : d \in 1..Len(deletes)}

\* C15: whenever delete_s3_file has been called for a file, every summary
\* produced from that file has already been handed to publish_to_appsync
C15_DeleteAfterAllAttempted ==
    \A f \in Deleted : \A k \in 1..Len(returned[f]) : AttemptsFor(f, k) # {}

\* a file of two summaries is deleted after both were attempted, one in vain
C15_Witness ==
    /\ deletes # <<>>
    /\ Len(returned[deletes[1].file]) = 2
    /\ \E a \in 1..Len(attempts) : attempts[a].file = deletes[1].file /\ ~attempts[a].success
    /\ C15_DeleteAfterAllAttempted

\* the attempts that succeeded, and those that failed
Succeeded == {a \in 1..Len(attempts) : attempts[a].success}
Failed == {a \in 1..Len(attempts) : ~attempts[a].success}

\* the invocation has ended, by a response or by an exception
Ended == hpc \in {"returned", "raised"}

\* C16: no summary is ever attempted twice and the counters count the
\* successful and the failed attempts; when the invocation ends, every
\* summary of every file that was processed has been attempted exactly once,
\* whatever the earlier attempts came to, and published + failed is the
\* total number of summaries
C16_FailureNeverBlocks ==
    /\ published_count = Cardinality(Succeeded)
    /\ failed_count = Cardinality(Failed)
    /\ \A f \in 1..Len(returned) : \A k \in 1..Len(returned[f]) :
          Cardinality(AttemptsFor(f, k)) <= 1
    /\ Ended =>
          /\ \A f \in 1..Len(returned) : \A k \in 1..Len(returned[f]) :
                Cardinality(AttemptsFor(f, k)) = 1
          /\ total_summaries = SeqSum([f \in 1..Len(returned) |-> Len(returned[f])])
          /\ published_count + failed_count = total_summaries

\* an invocation has returned after a refused and a timed-out publish, the
\* first of them followed by a successful publish of the same file
C16_Witness ==
    /\ hpc = "returned"
    /\ \E a \in Failed : attempts[a].answer = "403"
    /\ \E a \in Failed : attempts[a].answer = "timeout"
    /\ \E a \in Failed : \E b \in Succeeded : b = a + 1 /\ attempts[a].file = attempts[b].file
    /\ failed_count = 2
    /\ handler_result[1].failed = 2
    /\ Deleted = {1, 2}

\* the files of the event whose object could not be read
Unreadable == {f \in 1..Len(objects) : objects[f] # "ok"}

\* C17: once process_vpc_flow_log_file has been called on a file whose
\* download or decompression fails, the invocation has ended in an exception
\* given to the caller, no summary of that file has been handed to the
\* publisher and delete_s3_file has not been called for that file
C17_UnreadableFileIsFatal ==
    \A f \in Unreadable :
        /\ \A a \in 1..Len(attempts) : attempts[a].file # f
        /\ f \notin Deleted
        /\ (fileIdx > f \/ (fileIdx = f /\ hpc # "record")) =>
              /\ hpc = "raised"
              /\ fileIdx = f
              /\ handler_result = <<[raised |-> objects[f]]>>

\* the second object of an event is a broken archive: the invocation has
\* raised after the first file's summaries were published and the file deleted
C17_Witness ==
    /\ hpc = "raised"
    /\ fileIdx = 2
    /\ objects[2] = "bad_gzip"
    /\ handler_result = <<[raised |-> "bad_gzip"]>>
    /\ Len(returned[1]) = 2
    /\ Cardinality(Succeeded) = 2
    /\ Deleted = {1}

\* the fields of the handler's response that carry the counts
CountFields == {"summaries_processed", "published", "failed"}

\* C18: whenever an invocation of the flow-log handler has ended, by a
\* response or by an exception, its caller has been given a structured
\* outcome that carries the counts of summaries processed, published and
\* failed
C18_OutcomeCarriesCounts ==
    Ended => /\ handler_result # <<>>
             /\ CountFields \subseteq DOMAIN handler_result[1]

\* C19: in the life of one process get_parameter is called at most once,
\* and a key that a fetch has delivered stays in APPSYNC_API_KEY whatever
\* publish calls and invocations follow
C19_KeyFetchedOnce ==
    [][/\ ssm_calls' <= 1
       /\ APPSYNC_API_KEY = ApiKey => APPSYNC_API_KEY' = ApiKey]_vars

\* the process is in its second invocation, one fetch has delivered the key,
\* and two publishes of this invocation were sent with it
C19_Witness ==
    /\ invocation = 2
    /\ ssm_calls = 1
    /\ APPSYNC_API_KEY = ApiKey
    /\ Len(attempts) >= 2
    /\ \A a \in 1..Len(attempts) : attempts[a].key = ApiKey

(***************************************************************************)
(* The discovery handler on lifecycle events (src/app/gather.py,           *)
(* handle_eventbridge_event): the interface named by a create or attach    *)
(* event is described, classified and put into the table; the one named    *)
(* by a delete or detach event is deleted from the table.                  *)
(***************************************************************************)
MaxEvents == 3

EniIds == {"eni-1", "eni-2"}

\* no item under a key of the table
NoItem == <<>>

LifecycleNames == {"CreateNetworkInterface", "AttachNetworkInterface",
                   "DeleteNetworkInterface", "DetachNetworkInterface"}
EventNames == LifecycleNames \cup {"ModifyNetworkInterfaceAttribute"}

\* the events delivered: a name, and an interface id or none in each of
\* responseElements.networkInterface and requestParameters
EventsDelivered ==
    {[eventName |-> n, response_id |-> r, request_id |-> q] :
        n \in EventNames,
        r \in {None} \cup {Some(i) : i \in EniIds},
        q \in {None} \cup {Some(i) : i \in EniIds}}

\* the interface as describe_network_interfaces gives it: unattached, or
\* attached to an instance
DescribedEnis == <<SampleEni(1, 1, 1, 1, 1), SampleEni(1, 3, 1, 1, 1)>>

\* identify_resource on each of them, computed once
DescribedResources ==
    [v \in DOMAIN DescribedEnis |->
        identify_resource(DescribedEnis[v], Cloud("named", "found", "match")).result]

\* lines 1034-1127, the fields the table is keyed and the response is built by
ExtractEniData(id, v) ==
    [id |-> id,
     resource_type |-> DescribedResources[v].resource_type,
     resource_id |-> DescribedResources[v].resource_id]

\* lines 1288-1302: where the interface id is taken from
EniIdOf(event) ==
    CASE event.eventName = "CreateNetworkInterface" -> event.response_id
      [] event.eventName = "AttachNetworkInterface" -> event.request_id
      [] event.eventName \in {"DeleteNetworkInterface", "DetachNetworkInterface"} -> event.request_id
      [] OTHER -> None

\* line 1320
Saves(name) == name \in {"CreateNetworkInterface", "AttachNetworkInterface"}

\* a faulty Deletes that leaves detach events out
Deletes_only_delete(name) == name = "DeleteNetworkInterface"

\* line 1374
Deletes(name) == name \in {"DeleteNetworkInterface", "DetachNetworkInterface"}

\* what the calls made for an event can answer; "-" for a call not made
NoCalls == [session |-> "-", describe |-> "-", described |-> 0, put |-> "-", delete |-> "-"]

AnswersFor(event) ==
    IF EniIdOf(event) = None THEN {NoCalls}
    ELSE {[NoCalls EXCEPT !.session = "error"]}
         \cup (IF Saves(event.eventName)
               THEN {[NoCalls EXCEPT !.session = "ok", !.describe = d] :
                        d \in {"client_error", "not_found"}}
                    \cup {[NoCalls EXCEPT !.session = "ok", !.describe = "found",
                                          !.described = v, !.put = p] :
                             v \in DOMAIN DescribedEnis, p \in {"ok", "client_error"}}
               ELSE {[NoCalls EXCEPT !.session = "ok", !.delete = d] :
                        d \in {"ok", "client_error"}})

\* every call made answered well, and the interface was found
AllWell(answers) ==
    /\ answers.session = "ok"
    /\ answers.describe \in {"-", "found"}
    /\ answers.put \in {"-", "ok"}
    /\ answers.delete \in {"-", "ok"}

Responded(code, table) == [statusCode |-> code, table |-> table]

\* lines 1268-1416: the status code of the response and the table afterwards
handle_eventbridge_event(event, answers, table) ==
    IF EniIdOf(event) = None THEN Responded(400, table)
    ELSE IF answers.session # "ok" THEN Responded(500, table)
    ELSE IF Saves(event.eventName)
    THEN CASE answers.describe = "client_error" -> Responded(500, table)
           [] answers.describe = "not_found" -> Responded(404, table)
           [] OTHER ->
                IF answers.put = "ok"
                THEN Responded(200, [table EXCEPT ![EniIdOf(event)[1]] =
                                        <<ExtractEniData(EniIdOf(event)[1], answers.described)>>])
                ELSE Responded(500, table)
    ELSE IF Deletes(event.eventName)
    THEN IF answers.delete = "ok"
         THEN Responded(200, [table EXCEPT ![EniIdOf(event)[1]] = NoItem])
         ELSE Responded(500, table)
    ELSE Responded(400, table)

\* one event is delivered and handled
HandleEvent ==
    /\ handled < MaxEvents
    /\ \E event \in EventsDelivered : \E answers \in AnswersFor(event) :
       \E out \in {handle_eventbridge_event(event, answers, store)} :
          /\ store' = out.table
          /\ response' = <<[statusCode |-> out.statusCode]>>
          /\ lifecycle_event' = <<[eventName |-> event.eventName, eni_id |-> EniIdOf(event),
                                   answers |-> answers]>>
          /\ latest' = IF EniIdOf(event) = None THEN latest
                       ELSE [latest EXCEPT ![EniIdOf(event)[1]] = event.eventName]
          /\ disturbed' = (disturbed \/ ~AllWell(answers))
    /\ stored_before' = store
    /\ handled' = handled + 1
    /\ UNCHANGED cvars
    /\ UNCHANGED avars
    /\ UNCHANGED hvars
    /\ UNCHANGED xvars

\* the items the table can hold for an interface
Items == {<<ExtractEniData(id, v)>> : id \in EniIds, v \in DOMAIN DescribedEnis}

\* the table holds whatever earlier runs left in it; no event has come
InitEvents ==
    /\ store \in {t \in [EniIds -> {NoItem} \cup Items] :
                     \A id \in EniIds : t[id] = NoItem \/ t[id][1].id = id}
    /\ stored_before = store
    /\ lifecycle_event = <<>>
    /\ response = <<>>
    /\ latest = [id \in EniIds |-> "none"]
    /\ disturbed = FALSE
    /\ handled = 0
    /\ ClassifierIdle
    /\ AggregatorIdle
    /\ HandlerIdle
    /\ SynthesisIdle
    /\ PassIdle
    /\ WebIdle

NextEvents == HandleEvent

SpecEvents == InitEvents /\ [][NextEvents]_vars

(***************************************************************************)
(* Properties of the lifecycle events (SpecEvents).                        *)
(***************************************************************************)
\* C20: after any sequence of lifecycle events in which every call made
\* succeeded and every interface was found, the table holds an item for an
\* interface id named by some event exactly when the most recent event
\* naming it was a create or an attach; and the event handled last has left
\* the item of every id it does not name as it was
C20_StoreFollowsLastEvent ==
    /\ ~disturbed =>
          \A id \in EniIds :
             latest[id] # "none" =>
                (store[id] # NoItem <=> Saves(latest[id]))
    /\ \A id \in EniIds :
          (lifecycle_event = <<>> \/ lifecycle_event[1].eni_id # Some(id))
          => store[id] = stored_before[id]

\* three events handled without a fault: the last one, a detach, removed the
\* item of eni-2 while eni-1, attached before, keeps its item
C20_Witness ==
    /\ handled = 3
    /\ ~disturbed
    /\ lifecycle_event[1].eventName = "DetachNetworkInterface"
    /\ lifecycle_event[1].eni_id = Some("eni-2")
    /\ stored_before["eni-2"] # NoItem
    /\ store["eni-2"] = NoItem
    /\ latest["eni-1"] = "AttachNetworkInterface"
    /\ store["eni-1"] # NoItem
    /\ store["eni-1"][1].resource_type = "ec2"

(***************************************************************************)
(* Further properties of the aggregator and of the classifier.             *)
(***************************************************************************)
\* C23: the summaries of a file are finalized only when every line of the
\* file has been consumed, and in the list returned for a file the sequence
\* numbers strictly increase from each summary to the next
C23_SequenceNumbersIncrease ==
    /\ returned # <<>> => linePos = Len(File)
    /\ \A f \in 1..Len(returned) : \A j \in 1..Len(returned[f]) : \A k \in 1..Len(returned[f]) :
          j < k => returned[f][j].sequenceNumber < returned[f][k].sequenceNumber

\* C24: without pod marker and attached instance and with a description
\* that matches no rule, an interface carrying one of the two Grafana marker
\* tags is classified "grafana", whatever its interface type and requester
\* id are
C24_MarkerTagForcesGrafana ==
    Identified /\ ~HasPodMarker /\ ~HasInstance /\ DescriptionSilent /\ HasMarkerTag =>
        result.resource_type = "grafana"

\* a marker-tagged interface whose interface type says "lambda" and whose
\* requester says "elb"
C24_Witness ==
    /\ Identified
    /\ ~HasInstance
    /\ eni.Description = <<"P","r","i","m","a","r","y"," ","n","e","t","w","o","r","k"," ","i","n","t","e","r","f","a","c","e">>
    /\ eni.InterfaceType = Some("lambda")
    /\ eni.RequesterId = <<"a","m","a","z","o","n","-","e","l","b">>
    /\ eni.TagSet = <<Tag(K_grafana_managed, <<"t","r","u","e">>)>>
    /\ result.resource_type = "grafana"

\* the table entries whose prefix the requester id starts with
MatchingPrefixes ==
    {k \in 1..Len(SERVICE_MAPPING) : StartsWith(eni.RequesterId, SERVICE_MAPPING[k][1])}

\* the earliest of them in table order
FirstPrefixEntry == CHOOSE k \in MatchingPrefixes : \A k2 \in MatchingPrefixes : k <= k2

\* the requester id is no service account, does not mention Grafana, and
\* starts with a prefix of the table
RequesterHasPrefix ==
    /\ \A k \in 1..Len(AWS_SERVICE_ACCOUNTS) : AWS_SERVICE_ACCOUNTS[k][1] # eni.RequesterId
    /\ ~Contains(Lower(eni.RequesterId), <<"g","r","a","f","a","n","a">>)
    /\ MatchingPrefixes # {}

\* the interface type and the marker tags leave the type "unknown"
TypeStillUnknown ==
    /\ eni.InterfaceType \in {None, Some("interface")}
    /\ ~HasMarkerTag

\* C25: for an interface that reaches the requester rule and whose
\* description matches no rule, a requester id that starts with table
\* prefixes gives the service of the earliest such entry when the type is
\* still "unknown", and leaves the type as interface type and marker tags
\* set it otherwise
C25_FirstPrefixDecides ==
    Identified /\ ~HasPodMarker /\ ~HasInstance /\ DescriptionSilent /\ RequesterHasPrefix =>
        IF TypeStillUnknown
        THEN result.resource_type = SERVICE_MAPPING[FirstPrefixEntry][2]
        ELSE result.resource_type =
                TagMarkerRule(InterfaceTypeRule(InitialResult(eni), eni), eni).resource_type

\* "amazon-kinesis-firehose" starts with two prefixes of the table; the
\* earlier one, "amazon-kinesis", gives the type
C25_Witness ==
    /\ Identified
    /\ ~HasInstance
    /\ DescriptionSilent
    /\ TypeStillUnknown
    /\ eni.RequesterId = <<"a","m","a","z","o","n","-","k","i","n","e","s","i","s","-","f","i","r","e","h","o","s","e">>
    /\ Cardinality(MatchingPrefixes) = 2
    /\ result.resource_type = "kinesis"

\* the description matches the FSx pattern: "fsx", then a file-system id
FsxDescribed == ReSearch(Re_fsx, eni.Description).found

\* C26: a description that matches the FSx pattern is parsed as type "fsx"
\* with the file-system id of the match
C26_FsxDescriptionIsFsx ==
    Identified /\ FsxDescribed =>
        parse_resource_from_description(eni.Description) =
            [type |-> Some("fsx"), id |-> Some(ReSearch(Re_fsx, eni.Description).groups[1])]

\* C30: once a failed fetch has left the empty key in APPSYNC_API_KEY, the
\* key stays empty, get_parameter is not called again although it would
\* answer with the value, and every publish that follows is sent with the
\* empty key
C30_FailedFetchIsKept ==
    [][APPSYNC_API_KEY = EmptyKey =>
          /\ APPSYNC_API_KEY' = EmptyKey
          /\ ssm_calls' = ssm_calls
          /\ \A a \in (1..Len(attempts')) \ (1..Len(attempts)) : attempts'[a].key = EmptyKey]_vars

\* the process is in its second invocation, its only fetch has failed, and
\* two publishes of this invocation were sent with the empty key
C30_Witness ==
    /\ invocation = 2
    /\ ssm_calls = 1
    /\ APPSYNC_API_KEY = EmptyKey
    /\ Len(attempts) >= 2
    /\ \A a \in 1..Len(attempts) : attempts[a].key = EmptyKey

(***************************************************************************)
(* Virtual interfaces (src/app/gather.py, create_virtual_appliances): one  *)
(* pseudo-interface per attached internet gateway and one per VPC that     *)
(* has subnets, with one address per subnet of the VPC.  An IPv4 address   *)
(* is its four octets.                                                     *)
(***************************************************************************)
MaxSubnets == 3
MaxIgws == 2

\* text.split(ch)
SplitOn(s, ch) ==
    LET marks == {k \in 1..Len(s) : s[k] = ch}
        n == Cardinality(marks) + 1
        cut(j) == IF j = 0 THEN 0
                  ELSE IF j = n THEN Len(s) + 1
                  ELSE CHOOSE p \in marks : Cardinality({q \in marks : q <= p}) = j
    IN  [j \in 1..n |-> SubSeq(s, cut(j - 1) + 1, cut(j) - 1)]

Pow2(n) == IF n = 0 THEN 1 ELSE IF n = 1 THEN 2 ELSE IF n = 2 THEN 4 ELSE IF n = 3 THEN 8
           ELSE IF n = 4 THEN 16 ELSE IF n = 5 THEN 32 ELSE IF n = 6 THEN 64
           ELSE IF n = 7 THEN 128 ELSE 256

\* ipaddress.IPv4Network(cidr, strict=False).network_address for a text
\* "a.b.c.d/len": the host bits of the address are cleared
NetworkAddress(cidr) ==
    LET parts == SplitOn(cidr, "/")
        octets == SplitOn(parts[1], ".")
        len == ParseInt(parts[2]).value
        kept(i) == IF len >= 8 * i THEN 8 ELSE IF len <= 8 * (i - 1) THEN 0 ELSE len - 8 * (i - 1)
    IN  [i \in 1..4 |-> ParseInt(octets[i]).value
                          - (ParseInt(octets[i]).value % Pow2(8 - kept(i)))]

\* address + n for a small n: the sum is carried from the last octet upwards
AddressPlus(a, n) ==
    LET s4 == a[4] + n
        s3 == a[3] + (s4 \div 256)
        s2 == a[2] + (s3 \div 256)
        s1 == a[1] + (s2 \div 256)
    IN  <<s1, s2 % 256, s3 % 256, s4 % 256>>

\* str(address)
AddressText(a) ==
    IntToText(a[1]) \o <<".">> \o IntToText(a[2]) \o <<".">> \o IntToText(a[3])
    \o <<".">> \o IntToText(a[4])

\* lines 328-330 and 376-378: str(network.network_address + n)
HostAddress(cidr, n) == AddressText(AddressPlus(NetworkAddress(cidr), n))

\* the subnets and gateways the synthesis is run on
Subnet(id, vpc, cidr, az) ==
    [SubnetId |-> id, VpcId |-> vpc, CidrBlock |-> cidr, AvailabilityZone |-> az, Tags |-> <<>>]

SamplePoolSubnets ==
    {Subnet(<<"s","u","b","n","e","t","-","a">>, <<"v","p","c","-","1">>, <<"1","0",".","0",".","1",".","0","/","2","4">>, "az-a"),
     Subnet(<<"s","u","b","n","e","t","-","b">>, <<"v","p","c","-","1">>, <<"1","0",".","0",".","2",".","0","/","2","4">>, "az-b"),
     Subnet(<<"s","u","b","n","e","t","-","c">>, <<"v","p","c","-","2">>, <<"1","7","2",".","3","1",".","2","5","5",".","2","4","0","/","2","8">>, "az-a"),
     Subnet(<<"s","u","b","n","e","t","-","d">>, <<"v","p","c","-","2">>, <<"1","9","2",".","1","6","8",".","1","6",".","0","/","2","0">>, "az-b")}

Igw(id, attachments, tags) == [InternetGatewayId |-> id, Attachments |-> attachments, Tags |-> tags]

Attachment(vpc, state) == [VpcId |-> vpc, State |-> state]

SamplePoolIgws ==
    {Igw(<<"i","g","w","-","a">>, <<Attachment(Some(<<"v","p","c","-","1">>), "available")>>, <<Tag(K_Name, <<"m","a","i","n">>)>>),
     Igw(<<"i","g","w","-","b">>, <<Attachment(Some(<<"v","p","c","-","2">>), "attaching")>>, <<>>),
     Igw(<<"i","g","w","-","c">>, <<>>, <<>>),
     Igw(<<"i","g","w","-","d">>, <<Attachment(None, "available")>>, <<>>),
     Igw(<<"i","g","w","-","e">>, <<Attachment(Some(<<"v","p","c","-","3">>), "available")>>, <<>>)}

\* HostAddress of the blocks of the pool, computed once
HostAddresses ==
    [c \in {s.CidrBlock : s \in SamplePoolSubnets} |-> [n \in 1..2 |-> HostAddress(c, n)]]

HostAddressOf(cidr, n) ==
    IF cidr \in DOMAIN HostAddresses THEN HostAddresses[cidr][n] ELSE HostAddress(cidr, n)

\* the sequences of at most n different members of pool
Listings(pool, n) ==
    {s \in UNION {[1..k -> pool] : k \in 0..n} : \A i \in DOMAIN s : \A j \in DOMAIN s : s[i] = s[j] => i = j}

\* lines 304-309 and 370: the keys of subnets_by_vpc in the order of their insertion
VpcOrder(subs) ==
    LET firsts == {k \in 1..Len(subs) : \A j \in 1..(k - 1) : subs[j].VpcId # subs[k].VpcId}
        nth(i) == CHOOSE k \in firsts : Cardinality({q \in firsts : q <= k}) = i
    IN  [i \in 1..Cardinality(firsts) |-> subs[nth(i)].VpcId]

\* a faulty SubnetsOf that takes the subnets of every VPC
SubnetsOf_every_vpc(subs, vpc) == subs

\* subnets_by_vpc.get(vpc_id, [])
SubnetsOf(subs, vpc) == SelectSeq(subs, LAMBDA s : s.VpcId = vpc)

\* a faulty Attached that does not look at the state
Attached_any_state(attachment) == Truthy(attachment.VpcId)

\* line 314: the attachment names a VPC and is available
Attached(attachment) == Truthy(attachment.VpcId) /\ attachment.State = "available"

\* lines 322-339 and 371-388: the addresses, subnet ids and zones collected
\* from the subnets of one VPC
Collected(vpc_subnets, n) ==
    [private_ip_addresses |-> [k \in 1..Len(vpc_subnets) |-> HostAddressOf(vpc_subnets[k].CidrBlock, n)],
     subnet_ids |-> {vpc_subnets[k].SubnetId : k \in 1..Len(vpc_subnets)},
     azs |-> {vpc_subnets[k].AvailabilityZone : k \in 1..Len(vpc_subnets)}]

\* lines 341-367: the pseudo-interface of a gateway attached to vpc_id
IgwInterface(igw, vpc_id, subs) ==
    CHOOSE out \in
        {[id |-> igw.InternetGatewayId, vpc_id |-> vpc_id, type |-> "igw",
          resource_type |-> "igw", resource_id |-> igw.InternetGatewayId,
          resource_name |-> DictGet(TagDict(igw.Tags), K_Name, igw.InternetGatewayId),
          private_ip_addresses |-> c.private_ip_addresses,
          subnet_ids |-> c.subnet_ids, azs |-> c.azs] :
         c \in {Collected(SubnetsOf(subs, vpc_id), 1)}} : TRUE

\* lines 390-416: the pseudo-interface of the resolver of vpc_id
DnsInterface(vpc_id, subs) ==
    CHOOSE out \in
        {[id |-> <<"r","e","s","o","l","v","e","r","-">> \o vpc_id, vpc_id |-> vpc_id, type |-> "dns",
          resource_type |-> "dns", resource_id |-> <<"r","e","s","o","l","v","e","r","-">> \o vpc_id,
          resource_name |-> <<"R","o","u","t","e","5","3"," ","R","e","s","o","l","v","e","r"," ","(">> \o vpc_id \o <<")">>,
          private_ip_addresses |-> c.private_ip_addresses,
          subnet_ids |-> c.subnet_ids, azs |-> c.azs] :
         c \in {Collected(SubnetsOf(subs, vpc_id), 2)}} : TRUE

\* lines 312-367 for the gateways from the k-th on
RECURSIVE IgwInterfaces(_, _, _)
IgwInterfaces(gws, subs, k) ==
    IF k > Len(gws) THEN <<>>
    ELSE LET attached == SelectSeq(gws[k].Attachments, Attached)
         IN  [j \in 1..Len(attached) |-> IgwInterface(gws[k], attached[j].VpcId[1], subs)]
             \o IgwInterfaces(gws, subs, k + 1)

\* lines 302-419
create_virtual_appliances(subs, gws) ==
    IgwInterfaces(gws, subs, 1)
    \o [i \in 1..Len(VpcOrder(subs)) |-> DnsInterface(VpcOrder(subs)[i], subs)]

\* one call of create_virtual_appliances
CreateVirtualAppliances ==
    /\ spc = "start"
    /\ virtual_appliances' = create_virtual_appliances(subnets, igws)
    /\ spc' = "created"
    /\ UNCHANGED <<subnets, igws>>
    /\ UNCHANGED <<pvars, wvars>>
    /\ UNCHANGED cvars
    /\ UNCHANGED avars
    /\ UNCHANGED hvars
    /\ UNCHANGED evars

InitSynth ==
    /\ subnets \in Listings(SamplePoolSubnets, MaxSubnets)
    /\ igws \in Listings(SamplePoolIgws, MaxIgws)
    /\ virtual_appliances = <<>>
    /\ spc = "start"
    /\ PassIdle
    /\ WebIdle
    /\ ClassifierIdle
    /\ AggregatorIdle
    /\ HandlerIdle
    /\ EventsIdle

NextSynth == CreateVirtualAppliances

SpecSynth == InitSynth /\ [][NextSynth]_vars

(***************************************************************************)
(* Claims about the virtual interfaces.                                    *)
(***************************************************************************)
Created == spc = "created"

\* the entries of virtual_appliances of type t with id i
EntriesOf(t, i) ==
    {k \in 1..Len(virtual_appliances) :
        virtual_appliances[k].type = t /\ virtual_appliances[k].id = i}

\* the attachments of gateway g that name a VPC and are available
AvailableAttachments(g) ==
    {j \in 1..Len(g.Attachments) :
        g.Attachments[j].VpcId # None /\ g.Attachments[j].State = "available"}

VpcsWithSubnets == {subnets[k].VpcId : k \in 1..Len(subnets)}

\* C21: create_virtual_appliances gives one "igw" entry, with the id of the
\* gateway, for every attachment of a gateway that names a VPC and is
\* available, none for another attachment; one "dns" entry with the id
\* "resolver-" followed by the VPC id for every VPC that has a subnet, none for
\* another VPC; and the ids of the entries differ from each other.
C21_OneEntryPerGatewayAndVpc ==
    Created =>
        /\ \A g \in Range(igws) :
              Cardinality(EntriesOf("igw", g.InternetGatewayId)) = Cardinality(AvailableAttachments(g))
        /\ \A v \in VpcsWithSubnets : Cardinality(EntriesOf("dns", <<"r","e","s","o","l","v","e","r","-">> \o v)) = 1
        /\ \A k \in 1..Len(virtual_appliances) :
              \/ /\ virtual_appliances[k].type = "igw"
                 /\ \E g \in Range(igws) :
                       /\ virtual_appliances[k].id = g.InternetGatewayId
                       /\ AvailableAttachments(g) # {}
              \/ /\ virtual_appliances[k].type = "dns"
                 /\ \E v \in VpcsWithSubnets : virtual_appliances[k].id = <<"r","e","s","o","l","v","e","r","-">> \o v
        /\ \A j \in 1..Len(virtual_appliances) : \A k \in 1..Len(virtual_appliances) :
              virtual_appliances[j].id = virtual_appliances[k].id => j = k

\* an available gateway of a VPC without subnets and a gateway that is still
\* attaching were given next to the subnets of one VPC: two entries were made
C21_Witness ==
    /\ Created
    /\ \E g \in Range(igws) : g.Attachments # <<>> /\ g.Attachments[1].State = "attaching"
    /\ \E g \in Range(igws) : AvailableAttachments(g) # {} /\ g.Attachments[1].VpcId[1] \notin VpcsWithSubnets
    /\ Cardinality(VpcsWithSubnets) = 1
    /\ Len(virtual_appliances) = 2
    /\ virtual_appliances[1].type = "igw"
    /\ virtual_appliances[2].type = "dns"

\* the first and second host address of the blocks of the subnets, as text
ExpectedAddress ==
    [c \in {s.CidrBlock : s \in SamplePoolSubnets} |->
        IF c = <<"1","0",".","0",".","1",".","0","/","2","4">> THEN <<<<"1","0",".","0",".","1",".","1">>, <<"1","0",".","0",".","1",".","2">>>>
        ELSE IF c = <<"1","0",".","0",".","2",".","0","/","2","4">> THEN <<<<"1","0",".","0",".","2",".","1">>, <<"1","0",".","0",".","2",".","2">>>>
        ELSE IF c = <<"1","7","2",".","3","1",".","2","5","5",".","2","4","0","/","2","8">> THEN <<<<"1","7","2",".","3","1",".","2","5","5",".","2","4","1">>, <<"1","7","2",".","3","1",".","2","5","5",".","2","4","2">>>>
        ELSE <<<<"1","9","2",".","1","6","8",".","1","6",".","1">>, <<"1","9","2",".","1","6","8",".","1","6",".","2">>>>]

\* the blocks of the subnets of VPC v, in the order of the subnets
BlocksOf(v) ==
    LET own == SelectSeq(subnets, LAMBDA s : s.VpcId = v)
    IN  [k \in 1..Len(own) |-> own[k].CidrBlock]

\* C22: an entry carries one address for every subnet of its VPC and no other
\* address: the network address plus one in an "igw" entry, the network address
\* plus two in a "dns" entry.
C22_OneAddressPerSubnet ==
    Created =>
        \A k \in 1..Len(virtual_appliances) :
            LET e == virtual_appliances[k]
                n == IF e.type = "igw" THEN 1 ELSE 2
            IN  e.private_ip_addresses = [j \in 1..Len(BlocksOf(e.vpc_id)) |-> ExpectedAddress[BlocksOf(e.vpc_id)[j]][n]]

\* the resolver of a VPC with the subnets 10.0.1.0/24 and 10.0.2.0/24 got
\* 10.0.1.2 and 10.0.2.2 while a subnet of another VPC was given too, and the
\* gateway of the VPC got 10.0.1.1 and 10.0.2.1
C22_Witness ==
    /\ Created
    /\ Cardinality(VpcsWithSubnets) = 2
    /\ \E k \in 1..Len(virtual_appliances) :
          /\ virtual_appliances[k].type = "dns"
          /\ virtual_appliances[k].private_ip_addresses = <<<<"1","0",".","0",".","1",".","2">>, <<"1","0",".","0",".","2",".","2">>>>
    /\ \E k \in 1..Len(virtual_appliances) :
          /\ virtual_appliances[k].type = "igw"
          /\ virtual_appliances[k].private_ip_addresses = <<<<"1","0",".","0",".","1",".","1">>, <<"1","0",".","0",".","2",".","1">>>>

(***************************************************************************)
(* The discovery pass (src/app/gather.py, process_all_network_interfaces): *)
(* every interface is classified and saved, then the virtual interfaces    *)
(* are made and saved, and the statistics of the pass are returned.        *)
(***************************************************************************)
MaxEnis == 2

\* lines 1185-1191
NewStats == [total |-> 0, processed |-> 0, saved |-> 0, errors |-> 0, by_type |-> EmptyDict]

\* stats['by_type'].get(resource_type, 0) + 1
CountType(by_type, resource_type) ==
    [t \in DOMAIN by_type \cup {resource_type} |->
        IF t = resource_type THEN DictGet(by_type, t, 0) + 1 ELSE by_type[t]]

\* what can happen to one interface: extract_eni_data raises; or it returns
\* and save_to_dynamodb returns True, returns False or raises
EniFates == {"extract_raises", "saved", "not_saved", "save_raises"}

\* the virtual interfaces are made already
VirtualFates == {"saved", "not_saved", "save_raises"}

\* lines 1217-1220 and 1252-1255, and the handlers at 1222-1227 and 1257-1262
AfterSave(st, fate) ==
    IF fate = "saved" THEN [st EXCEPT !.saved = @ + 1] ELSE [st EXCEPT !.errors = @ + 1]

\* a faulty AfterEni that does not count an interface whose classification raises
AfterEni_raise_uncounted(st, resource_type, fate) ==
    IF fate = "extract_raises" THEN st
    ELSE AfterSave([st EXCEPT !.processed = @ + 1, !.by_type = CountType(@, resource_type)], fate)

\* lines 1199-1227: one turn of the loop over the interfaces
AfterEni(st, resource_type, fate) ==
    IF fate = "extract_raises" THEN [st EXCEPT !.errors = @ + 1]
    ELSE AfterSave([st EXCEPT !.processed = @ + 1, !.by_type = CountType(@, resource_type)], fate)

\* lines 1237-1262: one turn of the loop over the virtual interfaces
AfterVirtual(st, resource_type, fate) ==
    AfterSave([st EXCEPT !.processed = @ + 1, !.total = @ + 1,
                         !.by_type = CountType(@, resource_type)], fate)

\* the interfaces get_all_network_interfaces returns
PassInterfaces ==
    UNION {[1..k -> DOMAIN DescribedEnis] : k \in 0..MaxEnis}

\* the subnets and gateways of the region of the pass
PassSubnets ==
    {<<>>,
     <<Subnet(<<"s","u","b","n","e","t","-","a">>, <<"v","p","c","-","1">>, <<"1","0",".","0",".","1",".","0","/","2","4">>, "az-a"),
       Subnet(<<"s","u","b","n","e","t","-","c">>, <<"v","p","c","-","2">>, <<"1","7","2",".","3","1",".","2","5","5",".","2","4","0","/","2","8">>, "az-a")>>}

PassIgws ==
    {<<>>, <<Igw(<<"i","g","w","-","a">>, <<Attachment(Some(<<"v","p","c","-","1">>), "available")>>, <<>>)>>}

\* the turns of the two loops taken so far
RealTurns == Cardinality({k \in DOMAIN pass_log : pass_log[k].kind = "real"})
VirtualTurns == Cardinality({k \in DOMAIN pass_log : pass_log[k].kind = "virtual"})

\* lines 1193-1195
GetAllNetworkInterfaces ==
    /\ ppc = "start"
    /\ \E answer \in {"ok", "raises"} :
          IF answer = "ok"
          THEN /\ stats' = [NewStats EXCEPT !.total = Len(network_interfaces)]
               /\ ppc' = "enis"
          ELSE /\ stats' = stats
               /\ ppc' = "raised"
    /\ UNCHANGED <<network_interfaces, pass_log>>
    /\ UNCHANGED <<svars, wvars>>
    /\ UNCHANGED cvars
    /\ UNCHANGED avars
    /\ UNCHANGED hvars
    /\ UNCHANGED evars

\* lines 1198-1227
ProcessEni ==
    /\ ppc = "enis"
    /\ RealTurns < Len(network_interfaces)
    /\ \E fate \in EniFates :
          /\ stats' = AfterEni(stats, DescribedResources[network_interfaces[RealTurns + 1]].resource_type, fate)
          /\ pass_log' = Append(pass_log, [kind |-> "real", fate |-> fate])
    /\ UNCHANGED <<network_interfaces, ppc>>
    /\ UNCHANGED <<svars, wvars>>
    /\ UNCHANGED cvars
    /\ UNCHANGED avars
    /\ UNCHANGED hvars
    /\ UNCHANGED evars

\* lines 1230-1233 and 1263-1264: get_all_subnets or get_internet_gateways
\* raises, or the virtual interfaces are made
DescribeVirtual ==
    /\ ppc = "enis"
    /\ RealTurns = Len(network_interfaces)
    /\ \E answer \in {"ok", "raises"} :
          IF answer = "ok"
          THEN /\ virtual_appliances' = create_virtual_appliances(subnets, igws)
               /\ ppc' = "virtual"
          ELSE /\ virtual_appliances' = virtual_appliances
               /\ ppc' = "returned"
    /\ UNCHANGED <<subnets, igws, spc>>
    /\ UNCHANGED <<network_interfaces, stats, pass_log>>
    /\ UNCHANGED wvars
    /\ UNCHANGED cvars
    /\ UNCHANGED avars
    /\ UNCHANGED hvars
    /\ UNCHANGED evars

\* lines 1236-1262
ProcessVirtual ==
    /\ ppc = "virtual"
    /\ VirtualTurns < Len(virtual_appliances)
    /\ \E fate \in VirtualFates :
          /\ stats' = AfterVirtual(stats, virtual_appliances[VirtualTurns + 1].resource_type, fate)
          /\ pass_log' = Append(pass_log, [kind |-> "virtual", fate |-> fate])
    /\ UNCHANGED <<network_interfaces, ppc>>
    /\ UNCHANGED <<svars, wvars>>
    /\ UNCHANGED cvars
    /\ UNCHANGED avars
    /\ UNCHANGED hvars
    /\ UNCHANGED evars

\* line 1265
ReturnStats ==
    /\ ppc = "virtual"
    /\ VirtualTurns = Len(virtual_appliances)
    /\ ppc' = "returned"
    /\ UNCHANGED <<network_interfaces, stats, pass_log>>
    /\ UNCHANGED <<svars, wvars>>
    /\ UNCHANGED cvars
    /\ UNCHANGED avars
    /\ UNCHANGED hvars
    /\ UNCHANGED evars

InitPass ==
    /\ network_interfaces \in PassInterfaces
    /\ stats = <<>>
    /\ pass_log = <<>>
    /\ ppc = "start"
    /\ subnets \in PassSubnets
    /\ igws \in PassIgws
    /\ virtual_appliances = <<>>
    /\ spc = "idle"
    /\ WebIdle
    /\ ClassifierIdle
    /\ AggregatorIdle
    /\ HandlerIdle
    /\ EventsIdle

NextPass == GetAllNetworkInterfaces \/ ProcessEni \/ DescribeVirtual \/ ProcessVirtual \/ ReturnStats

SpecPass == InitPass /\ [][NextPass]_vars

(***************************************************************************)
(* Claims about the discovery pass.                                        *)
(***************************************************************************)
PassReturned == ppc = "returned"

FailedTurns == {k \in DOMAIN pass_log : pass_log[k].fate # "saved"}

RECURSIVE SumOver(_, _)
SumOver(f, keys) ==
    IF keys = {} THEN 0
    ELSE LET k == CHOOSE x \in keys : TRUE IN f[k] + SumOver(f, keys \ {k})

\* C27: when the pass returns, saved + errors = total, saved <= processed <=
\* total and the counts by resource type add up to processed; every failure of
\* one interface added one to errors, and every interface, real and virtual,
\* had its turn whatever happened to the ones before it.
C27_StatsAddUp ==
    PassReturned =>
        /\ stats.saved + stats.errors = stats.total
        /\ stats.saved <= stats.processed
        /\ stats.processed <= stats.total
        /\ SumOver(stats.by_type, DOMAIN stats.by_type) = stats.processed
        /\ stats.errors = Cardinality(FailedTurns)
        /\ RealTurns = Len(network_interfaces)
        /\ VirtualTurns = Len(virtual_appliances)

\* a pass over two interfaces and three virtual interfaces has returned: the
\* classification of the first interface raised, the save of the second
\* raised, the save of the first virtual interface failed and the last one
\* was saved
C27_Witness ==
    /\ PassReturned
    /\ Len(network_interfaces) = 2
    /\ Len(virtual_appliances) = 3
    /\ Len(pass_log) = 5
    /\ pass_log[1].fate = "extract_raises"
    /\ pass_log[2].fate = "save_raises"
    /\ pass_log[3].fate = "not_saved"
    /\ pass_log[5].fate = "saved"
    /\ stats.errors = 3

(***************************************************************************)
(* The web application (src/app/app.py).  vpc_list is the table of the     *)
(* registered VPCs, keyed by VPC id; vpc_map is the table of interface     *)
(* records, at most one per interface id.  A record bears the number of    *)
(* the gathering it comes from.                                            *)
(***************************************************************************)
MaxRefreshes == 2

VpcIds == {"vpc-1", "vpc-2"}

InterfaceIds == {"eni-1", "eni-2"}

MapRecord(id, vpc, gathering) == [id |-> id, vpc_id |-> vpc, gathering |-> gathering]

\* the records stored before the first request
StoredAtFirst ==
    {{},
     {MapRecord("eni-1", "vpc-1", 0), MapRecord("eni-3", "vpc-2", 0)},
     {MapRecord("eni-1", "vpc-1", 0), MapRecord("eni-2", "vpc-1", 0), MapRecord("eni-3", "vpc-2", 0)}}

VpcRecord(account, region) == [account_id |-> account, region |-> region]

\* the VPCs registered before the first request
RegisteredAtFirst ==
    {EmptyDict,
     [v \in {"vpc-1"} |-> VpcRecord(Some("111111111111"), Some("eu-west-1"))],
     [v \in VpcIds |-> IF v = "vpc-1" THEN VpcRecord(Some("111111111111"), Some("eu-west-1"))
                       ELSE VpcRecord(Some("222222222222"), None)]}

\* table.put_item on a table keyed by id
PutItem(table, item) == {r \in table : r.id # item.id} \cup {item}

\* the records vpc_map_table.query returns on the index of vpc_id
RecordsOf(table, vpc) == {r \in table : r.vpc_id = vpc}

\* what the calls of one refresh can answer; "-" for a call not made.  The
\* two batch writers send their requests when their block is left: "error"
\* is the ClientError of that call, nothing of the batch being applied
NoAnswers ==
    [get |-> "-", assume |-> "-", gather |-> "-", gathered |-> {}, query |-> "-",
     delete |-> "-", insert |-> "-"]

RefreshAnswers(vpc, list) ==
    {[NoAnswers EXCEPT !.get = "error"]}
    \cup (IF vpc \notin DOMAIN list \/ list[vpc].account_id = None \/ list[vpc].region = None
          THEN {[NoAnswers EXCEPT !.get = "ok"]}
          ELSE {[NoAnswers EXCEPT !.get = "ok", !.assume = "denied"]}
               \cup {[NoAnswers EXCEPT !.get = "ok", !.assume = "ok", !.gather = g] :
                        g \in {"failed", "timeout"}}
               \cup {[NoAnswers EXCEPT !.get = "ok", !.assume = "ok", !.gather = "ok"]}
               \cup {[NoAnswers EXCEPT !.get = "ok", !.assume = "ok", !.gather = "ok",
                                       !.gathered = ids, !.query = "error"] :
                        ids \in {{"eni-2"}}}
               \cup {[NoAnswers EXCEPT !.get = "ok", !.assume = "ok", !.gather = "ok",
                                       !.gathered = ids, !.query = "ok", !.delete = "error"] :
                        ids \in {{"eni-2"}}}
               \cup {[NoAnswers EXCEPT !.get = "ok", !.assume = "ok", !.gather = "ok",
                                       !.gathered = ids, !.query = "ok", !.delete = "ok",
                                       !.insert = i] :
                        ids \in {{"eni-2"}, InterfaceIds}, i \in {"ok", "error"}})

Answer(status, table, deleted, added) ==
    [status |-> status, map |-> table, deleted |-> deleted, added |-> added]

\* lines 245-407: the status answered and the table of interface records left
\* behind by a refresh of vpc that is the n-th gathering
refresh_vpc(vpc, answers, list, table, n) ==
    LET existing_items == RecordsOf(table, vpc)
        new_interfaces == {MapRecord(i, vpc, n) : i \in answers.gathered}
        after_delete == table \ existing_items
        inserted == {r \in after_delete : r.id \notin answers.gathered} \cup new_interfaces
    IN  CASE answers.get = "error" -> Answer(500, table, 0, 0)
          [] vpc \notin DOMAIN list -> Answer(404, table, 0, 0)
          [] list[vpc].account_id = None \/ list[vpc].region = None -> Answer(500, table, 0, 0)
          [] answers.assume = "denied" -> Answer(403, table, 0, 0)
          [] answers.gather = "failed" -> Answer(500, table, 0, 0)
          [] answers.gather = "timeout" -> Answer(504, table, 0, 0)
          [] answers.gathered = {} -> Answer(404, table, 0, 0)
          [] answers.query = "error" -> Answer(500, table, 0, 0)
          [] answers.delete = "error" -> Answer(500, table, 0, 0)
          [] answers.insert = "error" -> Answer(500, after_delete, 0, 0)
          [] OTHER -> Answer(200, inserted, Cardinality(existing_items), Cardinality(new_interfaces))

\* one request POST /api/vpc/<vpc_id>/refresh
Refresh ==
    /\ Len(requests) < MaxRefreshes
    /\ \E vpc \in VpcIds : \E answers \in RefreshAnswers(vpc, vpc_list) :
         \E done \in {refresh_vpc(vpc, answers, vpc_list, vpc_map, Len(requests) + 1)} :
          /\ requests' = Append(requests, [vpc_id |-> vpc, answers |-> answers])
          /\ map_before' = vpc_map
          /\ vpc_map' = done.map
          /\ refresh_response' = [status |-> done.status, deleted |-> done.deleted, added |-> done.added]
    /\ UNCHANGED vpc_list
    /\ UNCHANGED <<svars, pvars>>
    /\ UNCHANGED cvars
    /\ UNCHANGED avars
    /\ UNCHANGED hvars
    /\ UNCHANGED evars

InitRefresh ==
    /\ vpc_list \in RegisteredAtFirst
    /\ vpc_map \in StoredAtFirst
    /\ map_before = {}
    /\ requests = <<>>
    /\ refresh_response = <<>>
    /\ SynthesisIdle
    /\ PassIdle
    /\ ClassifierIdle
    /\ AggregatorIdle
    /\ HandlerIdle
    /\ EventsIdle

NextRefresh == Refresh

SpecRefresh == InitRefresh /\ [][NextRefresh]_vars

\* C28: when a refresh is not answered 200, the interface records stored for
\* its VPC are the ones stored before the request.
C28_RefreshAllOrNothing ==
    requests # <<>> /\ refresh_response.status # 200 =>
        RecordsOf(vpc_map, requests[Len(requests)].vpc_id)
            = RecordsOf(map_before, requests[Len(requests)].vpc_id)

(***************************************************************************)
(* POST /api/vpc (src/app/app.py, add_vpc).  The web server handles        *)
(* requests in parallel: between the check of a request and its writes     *)
(* the steps of other requests can be taken.                               *)
(***************************************************************************)
MaxRequests == 3

\* what the calls between the check and the writes can answer; "-" for a call
\* not made
AddAnswers(vpc, list) ==
    {[get |-> "error", assume |-> "-", gather |-> "-", gathered |-> {}]}
    \cup (IF vpc \in DOMAIN list
          THEN {[get |-> "ok", assume |-> "-", gather |-> "-", gathered |-> {}]}
          ELSE {[get |-> "ok", assume |-> "denied", gather |-> "-", gathered |-> {}]}
               \cup {[get |-> "ok", assume |-> "ok", gather |-> g, gathered |-> {}] :
                        g \in {"failed", "timeout", "ok"}}
               \cup {[get |-> "ok", assume |-> "ok", gather |-> "ok", gathered |-> {"eni-1"}]})

\* lines 97-173: the status a request ends with before it writes, or 0 when
\* it goes on to write
StatusBeforeWrites(vpc, answers, list) ==
    CASE answers.get = "error" -> 500
      [] vpc \in DOMAIN list -> 409
      [] answers.assume = "denied" -> 403
      [] answers.gather = "failed" -> 500
      [] answers.gather = "timeout" -> 504
      [] answers.gathered = {} -> 404
      [] OTHER -> 0

\* lines 76-173: a request arrives, the VPC is looked up in the table of VPCs
\* and the interfaces are gathered
Check ==
    /\ Len(requests) < MaxRequests
    /\ \E vpc \in VpcIds : \E answers \in AddAnswers(vpc, vpc_list) :
         \E status \in {StatusBeforeWrites(vpc, answers, vpc_list)} :
          requests' = Append(requests,
                             [vpc_id |-> vpc, status |-> status, wrote |-> FALSE,
                              vpc_interfaces |-> {MapRecord(i, vpc, Len(requests) + 1) : i \in answers.gathered}])
    /\ UNCHANGED <<vpc_list, vpc_map, map_before, refresh_response>>
    /\ UNCHANGED <<svars, pvars>>
    /\ UNCHANGED cvars
    /\ UNCHANGED avars
    /\ UNCHANGED hvars
    /\ UNCHANGED evars

\* put_item of every record of a set
RECURSIVE PutItems(_, _)
PutItems(table, items) ==
    IF items = {} THEN table
    ELSE LET item == CHOOSE x \in items : TRUE
         IN  PutItems(PutItem(table, item), items \ {item})

\* lines 175-227: the interface records of a request that passed the check
\* are put into their table, then the VPC record into its own; when that
\* last put_item raises, the request is answered 500 (line 239)
Store ==
    /\ \E k \in DOMAIN requests : \E put \in {"ok", "error"} :
          /\ requests[k].status = 0
          /\ vpc_map' = PutItems(vpc_map, requests[k].vpc_interfaces)
          /\ vpc_list' = IF put = "error" THEN vpc_list
                         ELSE [v \in DOMAIN vpc_list \cup {requests[k].vpc_id} |->
                                  IF v = requests[k].vpc_id
                                  THEN VpcRecord(Some("111111111111"), Some("eu-west-1"))
                                  ELSE vpc_list[v]]
          /\ requests' = [requests EXCEPT ![k].status = IF put = "ok" THEN 201 ELSE 500,
                                          ![k].wrote = TRUE]
    /\ UNCHANGED <<map_before, refresh_response>>
    /\ UNCHANGED <<svars, pvars>>
    /\ UNCHANGED cvars
    /\ UNCHANGED avars
    /\ UNCHANGED hvars
    /\ UNCHANGED evars

InitAdd ==
    /\ vpc_list \in {EmptyDict, [v \in {"vpc-2"} |-> VpcRecord(Some("222222222222"), Some("eu-west-1"))]}
    /\ vpc_map = {}
    /\ map_before = {}
    /\ requests = <<>>
    /\ refresh_response = <<>>
    /\ SynthesisIdle
    /\ PassIdle
    /\ ClassifierIdle
    /\ AggregatorIdle
    /\ HandlerIdle
    /\ EventsIdle

NextAdd == Check \/ Store

SpecAdd == InitAdd /\ [][NextAdd]_vars

\* the requests for VPC v that were answered with status s
AnsweredWith(v, s) == {k \in DOMAIN requests : requests[k].vpc_id = v /\ requests[k].status = s}

\* C29: of the add_vpc requests for one VPC id, however they are interleaved,
\* at most one is answered 201 and writes its records, and a request answered
\* 409 writes nothing.
C29_AtMostOneAdds ==
    /\ \A v \in VpcIds : Cardinality(AnsweredWith(v, 201)) <= 1
    /\ \A k \in DOMAIN requests : requests[k].status = 409 => ~requests[k].wrote
====
